---- MODULE Spec2Model ----
(***************************************************************************)
(* Browns Shoes scraper: the dedup/filter engine, the channel mappers,    *)
(* the listing paging and the crawl with its proxy circuit and its re-run *)
(* without proxy, modelled from the two builds found in the repository:   *)
(*   "part_000" : src/unnamed/part_000 (README followed by the main flow   *)
(*                with grid paging and without sitemap fallback)           *)
(*   "main_js"  : src/src/main.js, lines 1-950 (the flow with JSON-LD, HTML *)
(*                link and sitemap fallbacks)                              *)
(* Both builds share proxy handling, the brace scanner, passesFilters and  *)
(* the paging loop; they differ in saveItems, normalizeItem and the        *)
(* channel mappers.                                                        *)
(***************************************************************************)
EXTENDS Integers, Sequences, FiniteSets, TLC

\* ------------------------------------------------------------------ bounds
MaxItemsBound == 2      \* MAX_ITEMS ranges over 1..MaxItemsBound
MaxConcurrency == 2     \* request handlers that may be in flight together
MaxHandlerRuns == 2     \* request handler invocations per crawl
MaxBatch == 2           \* products one channel yields for one page
MaxStrLen == 2          \* characters of a filter text or of a color, size, brand
MaxEntries == 2         \* colors (sizes) extracted for one record

\* --------------------------------------------------------------- constants
DEFAULT_MAX_ITEMS == 20
DEFAULT_MAX_PAGES == 50
DEFAULT_PAGE_SIZE == 20

Builds == {"part_000", "main_js"}

\* ------------------------------------------------------------- null values
\* JS null for a string-valued field, and for a number-valued field.
\* toNumber strips every character but digits and '.', so a parsed number is
\* never negative and -1 is free to stand for null.
Null == "null"
NoNum == -1

\* ---------------------------------------------------------------------URLs
\* An absolute URL: whether its path contains '/product/', the rest of the
\* path, and whether it carries a query string or fragment.
NoUrl == [product |-> FALSE, path |-> "", query |-> FALSE]
Hrefs ==
    { [product |-> TRUE, path |-> "a", query |-> FALSE],
      [product |-> TRUE, path |-> "a", query |-> TRUE],
      [product |-> TRUE, path |-> "b", query |-> FALSE] }

\* toAbs: the hrefs of the model are absolute already; new URL(href).href of
\* an absolute URL is that URL.
toAbs(href) == href

normalizeProductUrl(href) ==
    IF href = NoUrl THEN NoUrl
    ELSE IF href.product THEN [href EXCEPT !.query = FALSE]
    ELSE href

\* ------------------------------------------------------------------strings
\* A string that a filter inspects is a sequence of characters; the empty
\* sequence is the empty string, which JS treats like null (falsy).
Chars == {"r", "R", "e"}

lowerChar(ch) == IF ch = "R" THEN "r" ELSE ch

\* A comparison that keeps the case.
toLowerCaseId(s) == s

toLowerCase(s) == [i \in DOMAIN s |-> lowerChar(s[i])]

\* String.prototype.includes
includes(s, t) ==
    \E i \in 0..(Len(s) - Len(t)) : SubSeq(s, i + 1, i + Len(t)) = t

\* ------------------------------------------------------------------records
\* A candidate / product record, reduced to the fields the dedup engine, the
\* filters and the price rule read.
Item(url, title, productId, price, originalPrice, brand, colors, sizes) ==
    [url |-> url, title |-> title, productId |-> productId, price |-> price,
     originalPrice |-> originalPrice, brand |-> brand, colors |-> colors,
     sizes |-> sizes]

\* const originalPrice = priceMax && price && priceMax > price ? priceMax : null
originalPriceOf(price, priceMax) ==
    IF priceMax # NoNum /\ priceMax # 0 /\ price # NoNum /\ price # 0 /\ priceMax > price
    THEN priceMax ELSE NoNum

\* What a page carries for one product: the link, the name, the identifier,
\* the price and the reference price (priceMax of an API hit, retail_price
\* of a data-segment payload).
Raw(href, name, id, price, ref) ==
    [href |-> href, name |-> name, id |-> id, price |-> price, ref |-> ref]

\* mapSearchHit: API hit or preloaded hit -> candidate.  part_000 canonicalises
\* the product URL, main_js only makes it absolute.
mapSearchHit(build, hit) ==
    Item(IF hit.href = NoUrl THEN NoUrl
         ELSE IF build = "part_000" THEN normalizeProductUrl(hit.href) ELSE toAbs(hit.href),
         hit.name, hit.id, hit.price, originalPriceOf(hit.price, hit.ref),
         <<>>, <<>>, <<>>)

\* extractJsonLdProducts: one Product node -> candidate (originalPrice: null,
\* colors: [], sizes: [], productId: sku).
mapJsonLdProduct(build, node) ==
    Item(IF node.href = NoUrl THEN NoUrl
         ELSE IF build = "part_000" THEN normalizeProductUrl(node.href) ELSE toAbs(node.href),
         node.name, node.id, node.price, NoNum, <<>>, <<>>, <<>>)

\* extractProductsFromHtml, one element.  part_000: the data-segment payload
\* (originalPrice: toNumber(data.retail_price)); main_js: the product link
\* scan (originalPrice: null, productId: null).
mapHtmlElement(build, data) ==
    IF build = "part_000"
    THEN Item(IF data.href = NoUrl THEN NoUrl ELSE normalizeProductUrl(data.href),
              data.name, data.id, data.price, data.ref, <<>>, <<>>, <<>>)
    ELSE Item(IF data.href = NoUrl THEN NoUrl ELSE toAbs(data.href),
              data.name, Null, data.price, NoNum, <<>>, <<>>, <<>>)

\* extractProductsFromHtml: the elements of the page in order, merged with
\* the intra-page key.  part_000 pushProduct: key = url || productId, no key
\* or seen key drops the element.  main_js: no url or seen url drops it.
RECURSIVE htmlScan(_, _, _, _, _)
htmlScan(build, elems, i, products, seen) ==
    IF i > Len(elems) THEN products
    ELSE LET item == mapHtmlElement(build, elems[i])
             nokey == [url |-> NoUrl, id |-> Null]
             key == IF item.url # NoUrl THEN [url |-> item.url, id |-> Null]
                    ELSE IF build = "part_000" THEN [url |-> NoUrl, id |-> item.productId]
                    ELSE nokey
         IN IF key = nokey \/ key \in seen
            THEN htmlScan(build, elems, i + 1, products, seen)
            ELSE htmlScan(build, elems, i + 1, Append(products, item), seen \cup {key})

extractProductsFromHtml(build, elems) == htmlScan(build, elems, 1, <<>>, {})

\* normalizeItem.  part_000 canonicalises the url again; main_js keeps it.
normalizeItem(build, item) ==
    [item EXCEPT !.url = IF item.url = NoUrl THEN NoUrl
                         ELSE IF build = "part_000" THEN normalizeProductUrl(item.url)
                         ELSE item.url]

\* shapeItem (part_000): normalizeItem, then the listing projection, which
\* keeps every field of the model's record.
shapeItem(build, item) == normalizeItem(build, item)

\* ------------------------------------------------------------------filters
\* The run's filter configuration: brand, color and size are trimmed strings
\* ("" when not configured), minPrice and maxPrice are numbers or null.
Config(brand, color, size, minPrice, maxPrice) ==
    [brand |-> brand, color |-> color, size |-> size,
     minPrice |-> minPrice, maxPrice |-> maxPrice]

NoFilters == Config(<<>>, <<>>, <<>>, NoNum, NoNum)

\* item.colors.some(entry => lower(entry).includes(lower(text)))
someIncludes(entries, text) ==
    \E k \in DOMAIN entries : includes(toLowerCase(entries[k]), toLowerCase(text))

passesBrand(cfg, item) ==
    ~(cfg.brand # <<>> /\ item.brand # <<>>
      /\ ~includes(toLowerCase(item.brand), toLowerCase(cfg.brand)))

passesMinPrice(cfg, item) ==
    ~(cfg.minPrice # NoNum /\ item.price # NoNum /\ item.price < cfg.minPrice)

\* An upper bound that excludes the bound itself.
passesMaxPriceExclusive(cfg, item) ==
    ~(cfg.maxPrice # NoNum /\ item.price # NoNum /\ item.price >= cfg.maxPrice)

passesMaxPrice(cfg, item) ==
    ~(cfg.maxPrice # NoNum /\ item.price # NoNum /\ item.price > cfg.maxPrice)

passesColor(cfg, item) ==
    ~(cfg.color # <<>> /\ ~someIncludes(item.colors, cfg.color) /\ Len(item.colors) # 0)

passesSize(cfg, item) ==
    ~(cfg.size # <<>> /\ ~someIncludes(item.sizes, cfg.size) /\ Len(item.sizes) # 0)

passesFilters(cfg, item) ==
    /\ passesBrand(cfg, item)
    /\ passesMinPrice(cfg, item)
    /\ passesMaxPrice(cfg, item)
    /\ passesColor(cfg, item)
    /\ passesSize(cfg, item)

\* ----------------------------------------------------------------saveItems
\* A break that comes one record late.
ceilingReachedLate(saved, accepted, max) == saved + accepted > max

\* if (itemsSaved + filtered.length >= MAX_ITEMS) break;
ceilingReached(saved, accepted, max) == saved + accepted >= max

\* The checks of one loop iteration that `continue`.
\* part_000: no url or no title; url already in seenKeys; filters.
\* main_js : no productId and no url; productId already in savedProductIds;
\*           no productId and url already in seenKeys; filters.
skipsItem(build, cfg, item, seen, ids) ==
    IF build = "part_000"
    THEN \/ item.url = NoUrl \/ item.title = Null
         \/ item.url \in seen
         \/ ~passesFilters(cfg, item)
    ELSE \/ (item.productId = Null /\ item.url = NoUrl)
         \/ (item.productId # Null /\ item.productId \in ids)
         \/ (item.productId = Null /\ item.url # NoUrl /\ item.url \in seen)
         \/ ~passesFilters(cfg, item)

\* A rejection that marks the url of the candidate all the same.
seenAfterContinueMarked(item, seen) ==
    IF item.url # NoUrl THEN seen \cup {item.url} ELSE seen

\* `continue`: a rejected candidate leaves seenKeys as it is.
seenAfterContinue(item, seen) == seen

\* The for-loop of saveItems from position i on: the accepted records and the
\* two sets as the loop leaves them.
RECURSIVE saveLoop(_, _, _, _, _, _, _, _, _)
saveLoop(build, cfg, max, saved, items, i, filtered, seen, ids) ==
    IF i > Len(items)
    THEN [filtered |-> filtered, seenKeys |-> seen, savedProductIds |-> ids]
    ELSE LET item == shapeItem(build, items[i])
         IN IF skipsItem(build, cfg, item, seen, ids)
            THEN saveLoop(build, cfg, max, saved, items, i + 1, filtered,
                          seenAfterContinue(item, seen), ids)
            ELSE LET f2 == Append(filtered, item)
                     s2 == IF item.url # NoUrl THEN seen \cup {item.url} ELSE seen
                     i2 == IF item.productId # Null THEN ids \cup {item.productId} ELSE ids
                 IN IF ceilingReached(saved, Len(f2), max)
                    THEN [filtered |-> f2, seenKeys |-> s2, savedProductIds |-> i2]
                    ELSE saveLoop(build, cfg, max, saved, items, i + 1, f2, s2, i2)

\* mapDetailProduct: the product of the DETAIL page's embedded state.
mapDetailProduct(product) ==
    Item(product.href, product.name, product.id, product.price,
         originalPriceOf(product.price, product.ref), <<>>, <<>>, <<>>)

\* The DETAIL merge: { ...base, ...detail, url: base.url || ... }.  Every
\* field the detail object carries replaces the field of base; the url of
\* base wins when base has one.
mergeDetail(base, detail, requestUrl) ==
    [detail EXCEPT !.url = IF base.url # NoUrl THEN base.url
                           ELSE normalizeProductUrl(IF detail.url # NoUrl THEN detail.url
                                                    ELSE requestUrl)]

\* ------------------------------------------------------------------- pools
Names == {Null, "t"}
Ids == {Null, "p1"}
Prices == {1, 2}
Refs == {NoNum, 2, 3}

\* Products that differ in what identifies them.
IdentityRaws ==
    { Raw(h, n, i, NoNum, NoNum) : h \in Hrefs \cup {NoUrl}, n \in Names, i \in Ids }

\* Products that differ in their price information.
PricedRaws ==
    { Raw([product |-> TRUE, path |-> "a", query |-> FALSE], "t", Null, p, r) :
        p \in Prices, r \in Refs }

\* The site as one crawl sees it: two product appearances (possibly the same
\* one), which its pages list in any order, combination and channel.
Catalogs == { {x, y} : x \in IdentityRaws \cup PricedRaws, y \in IdentityRaws \cup PricedRaws }

\* The product lists one page can carry for one channel: 1..MaxBatch
\* products of the catalog.
RECURSIVE SeqsOf(_, _)
SeqsOf(S, n) ==
    IF n = 0 THEN {<<>>}
    ELSE LET shorter == SeqsOf(S, n - 1)
         IN shorter \cup { Append(q, x) : q \in { t \in shorter : Len(t) = n - 1 }, x \in S }

PageLists(cat) == { q \in SeqsOf(cat, MaxBatch) : Len(q) >= 1 }

\* The channels that feed enqueueOrSaveDetails from a listing or grid page:
\* part_000 maps preloaded and API hits and scans grid HTML; main_js maps
\* API and preloaded hits, JSON-LD nodes and product links.
ListingChannels(build) ==
    IF build = "part_000" THEN {"api", "html"} ELSE {"api", "jsonld", "html"}

RECURSIVE mapEach(_, _, _, _)
mapEach(build, channel, raws, i) ==
    IF i > Len(raws) THEN <<>>
    ELSE <<IF channel = "api" THEN mapSearchHit(build, raws[i])
           ELSE mapJsonLdProduct(build, raws[i])>>
         \o mapEach(build, channel, raws, i + 1)

\* The candidates a channel extracts from a page's product list.
extract(build, channel, raws) ==
    IF channel = "html" THEN extractProductsFromHtml(build, raws)
    ELSE mapEach(build, channel, raws, 1)

\* What a DETAIL page can carry: a product of the catalog as the
\* embedded-state product, as the first JSON-LD product, or as an HTML
\* product element only; or nothing.
DetailPages(cat) ==
    { [kind |-> k, raw |-> r] : k \in {"state", "jsonld", "html"}, r \in cat }
    \cup { [kind |-> "none", raw |-> Raw(NoUrl, Null, Null, NoNum, NoNum)] }

\* ------------------------------------------------------------------- state
VARIABLES
    build,            \* which of the two builds runs
    catalog,          \* the product appearances the site serves
    maxConcurrency,   \* the crawler's maxConcurrency option
    MAX_ITEMS,        \* the configured item ceiling
    scrapeDetails,    \* detail follow-up mode
    cfg,              \* the filter configuration
    itemsSaved,       \* let itemsSaved
    itemsEnqueued,    \* let itemsEnqueued
    seenKeys,         \* const seenKeys = new Set()
    savedProductIds,  \* const savedProductIds = new Set()
    detailQueued,     \* const detailQueued = new Set()
    requestQueue,     \* the request queue: pending DETAIL tasks, keys ever added
    sink,             \* the records pushed with Actor.pushData, in order
    pc,               \* per request handler: where it is suspended
    local,            \* per request handler: filtered, products, loop index
    runs,             \* request handler invocations so far
    input,            \* the arguments of a function under test
    output,           \* its result
    MAX_PAGES,        \* the configured page ceiling
    listing,          \* the locals of a listing task's request handler
    proxyState,       \* const proxyState = { disabled, reason, authFailed }
    proxyConfiguration, \* let proxyConfiguration
    crawlerInstance,  \* the crawler runCrawler built, with the options it was given
    main,             \* the position of the main flow and what it has seen
    calls,            \* the network calls issued so far
    observed          \* the responses and errors the fetches have brought

pureVars == <<input, output>>

None == [op |-> "none"]

\* No function is under test.
PureParked == input = None /\ output = None

pagingVars == <<MAX_PAGES, listing>>

\* No listing task is followed.
PagingParked == MAX_PAGES = DEFAULT_MAX_PAGES /\ listing = None

crawlVars == <<proxyState, proxyConfiguration, crawlerInstance, main, calls, observed>>

Undefined == "undefined"

\* const proxyState = { disabled: false, reason: null, authFailed: false }
NoProxyFailure == [disabled |-> FALSE, reason |-> Null, authFailed |-> FALSE]

\* No crawl is orchestrated.
CrawlParked ==
    /\ proxyState = NoProxyFailure
    /\ proxyConfiguration = Undefined
    /\ crawlerInstance = None
    /\ main = None
    /\ calls = {}
    /\ observed = {}

engineVars ==
    <<build, catalog, maxConcurrency, MAX_ITEMS, scrapeDetails, cfg, itemsSaved, itemsEnqueued, seenKeys,
      savedProductIds, detailQueued, requestQueue, sink, pc, local, runs>>

Workers == 1..maxConcurrency

\* The locals of a suspended handler: the items saveItems was called with
\* and the records it accepted; the products and the position of the
\* enqueue loop.
NoLocal == [items |-> <<>>, filtered |-> <<>>, products |-> <<>>, k |-> 0]

\* The filter configuration of the engine runs: a minimum price that
\* excludes the cheapest priced product; no brand, color or size filter.
EngineConfig == Config(<<>>, <<>>, <<>>, 2, NoNum)

InitState(conc) ==
    /\ build \in Builds
    /\ catalog \in Catalogs
    /\ maxConcurrency = conc
    /\ MAX_ITEMS \in 1..MaxItemsBound
    /\ scrapeDetails \in BOOLEAN
    /\ cfg = EngineConfig
    /\ itemsSaved = 0
    /\ itemsEnqueued = 0
    /\ seenKeys = {}
    /\ savedProductIds = {}
    /\ detailQueued = {}
    /\ requestQueue = [pending |-> {}, keys |-> {}]
    /\ sink = <<>>
    /\ pc = [w \in 1..conc |-> "idle"]
    /\ local = [w \in 1..conc |-> NoLocal]
    /\ runs = 0

\* const getProgressCount = () => (scrapeDetails ? itemsEnqueued : itemsSaved)
getProgressCount == IF scrapeDetails THEN itemsEnqueued ELSE itemsSaved
hasReachedTarget == getProgressCount >= MAX_ITEMS

\* The url under which enqueueOrSaveDetails queues a product.
\* part_000: normalizeItem(product).url; main_js: toAbs(product.url).
detailUrlOf(product) ==
    IF product.url = NoUrl THEN NoUrl
    ELSE IF build = "part_000" THEN normalizeItem(build, product).url
    ELSE toAbs(product.url)

\* The for-loop of enqueueOrSaveDetails from position k on, up to its next
\* await: the index of the next product it adds to the queue, 0 when the
\* loop ends (ceiling reached or no product left).
RECURSIVE scanProducts(_, _, _)
scanProducts(products, k, queued) ==
    IF k > Len(products) THEN 0
    ELSE IF detailUrlOf(products[k]) = NoUrl \/ detailUrlOf(products[k]) \in queued
         THEN scanProducts(products, k + 1, queued)
         ELSE k

nextToQueue(products, k, enqueued, queued) ==
    IF enqueued >= MAX_ITEMS THEN 0 ELSE scanProducts(products, k, queued)

\* The handler of worker w continues in the enqueue loop at position k, or
\* returns when the loop has nothing to add.
ContinueEnqueue(w, products, k, enqueued, queued) ==
    LET n == nextToQueue(products, k, enqueued, queued)
    IN IF n = 0
       THEN /\ pc' = [pc EXCEPT ![w] = "idle"]
            /\ local' = [local EXCEPT ![w] = NoLocal]
       ELSE /\ pc' = [pc EXCEPT ![w] = "add"]
            /\ local' = [local EXCEPT ![w] =
                           [items |-> <<>>, filtered |-> <<>>, products |-> products, k |-> n]]

\* What follows saveItems in the caller: main_js goes on to the enqueue loop
\* in detail mode; otherwise the handler returns.  `after` is the product
\* list of the enclosing enqueueOrSaveDetails, <<>> for a DETAIL task.
AfterSave(w, after) ==
    IF build = "main_js" /\ scrapeDetails /\ after # <<>>
    THEN ContinueEnqueue(w, after, 1, itemsEnqueued, detailQueued)
    ELSE /\ pc' = [pc EXCEPT ![w] = "idle"]
         /\ local' = [local EXCEPT ![w] = NoLocal]

\* saveItems(items) up to its await: the two early returns, the loop, and
\* the suspension at Actor.pushData when something was accepted.
SaveItemsCall(w, items, after) ==
    IF items = <<>> \/ itemsSaved >= MAX_ITEMS
    THEN /\ AfterSave(w, after)
         /\ UNCHANGED <<seenKeys, savedProductIds>>
    ELSE LET r == saveLoop(build, cfg, MAX_ITEMS, itemsSaved, items, 1, <<>>,
                           seenKeys, savedProductIds)
         IN /\ seenKeys' = r.seenKeys
            /\ savedProductIds' = r.savedProductIds
            /\ IF r.filtered = <<>>
               THEN AfterSave(w, after)
               ELSE /\ pc' = [pc EXCEPT ![w] = "push"]
                    /\ local' = [local EXCEPT ![w] =
                                   [items |-> items, filtered |-> r.filtered,
                                    products |-> after, k |-> 0]]

\* ----------------------------------------------------------------- actions
\* A listing or grid handler reaches enqueueOrSaveDetails(products) with the
\* candidates one channel extracted from its page, and runs it up to its
\* first await.
\* part_000: listing mode saves; detail mode only queues DETAIL tasks.
\* main_js : saves first, then (detail mode) queues DETAIL tasks as well.
enqueueOrSaveDetails(w, products) ==
    IF products = <<>>
    THEN UNCHANGED <<seenKeys, savedProductIds, pc, local>>
    ELSE IF build = "part_000"
         THEN IF ~scrapeDetails
              THEN SaveItemsCall(w, products, <<>>)
              ELSE /\ ContinueEnqueue(w, products, 1, itemsEnqueued, detailQueued)
                   /\ UNCHANGED <<seenKeys, savedProductIds>>
         ELSE SaveItemsCall(w, products, products)

OfferProducts(w) ==
    /\ pc[w] = "idle"
    /\ runs < MaxHandlerRuns
    /\ \E channel \in ListingChannels(build), raws \in PageLists(catalog) :
           enqueueOrSaveDetails(w, extract(build, channel, raws))
    /\ runs' = runs + 1
    /\ UNCHANGED <<build, catalog, maxConcurrency, MAX_ITEMS, scrapeDetails, cfg, itemsSaved, itemsEnqueued,
                   detailQueued, requestQueue, sink>>

\* await Actor.pushData(filtered) resolves: the records are in the sink, the
\* counter is raised, saveItems returns to its caller.
PushDone(w) ==
    /\ pc[w] = "push"
    /\ sink' = sink \o local[w].filtered
    /\ itemsSaved' = itemsSaved + Len(local[w].filtered)
    /\ AfterSave(w, local[w].products)
    /\ UNCHANGED <<build, catalog, maxConcurrency, MAX_ITEMS, scrapeDetails, cfg, itemsEnqueued, seenKeys,
                   savedProductIds, detailQueued, requestQueue, runs>>

\* await Actor.pushData(filtered) rejects: the exception leaves saveItems and
\* the handler; nothing was written and the counter is not raised.
PushFail(w) ==
    /\ pc[w] = "push"
    /\ pc' = [pc EXCEPT ![w] = "idle"]
    /\ local' = [local EXCEPT ![w] = NoLocal]
    /\ UNCHANGED <<build, catalog, maxConcurrency, MAX_ITEMS, scrapeDetails, cfg, itemsSaved, itemsEnqueued,
                   seenKeys, savedProductIds, detailQueued, requestQueue, sink, runs>>

\* The base record a DETAIL task carries.
\* part_000: { ...normalizeItem(product), url }; main_js: the product itself.
baseOf(product) ==
    IF build = "part_000"
    THEN [normalizeItem(build, product) EXCEPT !.url = detailUrlOf(product)]
    ELSE product

\* await requestQueue.addRequest(...) resolves: the queue holds the task
\* unless it has seen the url before (the queue keys requests by url); the
\* url is marked queued, the counter is raised, the loop goes on.
AddDone(w) ==
    /\ pc[w] = "add"
    /\ LET product == local[w].products[local[w].k]
           url == detailUrlOf(product)
       IN /\ requestQueue' =
                IF url \in requestQueue.keys THEN requestQueue
                ELSE [pending |-> requestQueue.pending \cup {[url |-> url, base |-> baseOf(product)]},
                      keys |-> requestQueue.keys \cup {url}]
          /\ detailQueued' = detailQueued \cup {url}
          /\ itemsEnqueued' = itemsEnqueued + 1
          /\ ContinueEnqueue(w, local[w].products, local[w].k + 1,
                             itemsEnqueued + 1, detailQueued \cup {url})
    /\ UNCHANGED <<build, catalog, maxConcurrency, MAX_ITEMS, scrapeDetails, cfg, itemsSaved, seenKeys,
                   savedProductIds, sink, runs>>

\* The detail object of a DETAIL page.
\* part_000: detailFromState || first JSON-LD product || null, and without a
\* detail the HTML match merged over it.  main_js: first JSON-LD product,
\* else the HTML match.
detailOf(page) ==
    IF page.kind = "state" THEN <<mapDetailProduct(page.raw)>>
    ELSE IF page.kind = "jsonld" THEN <<mapJsonLdProduct(build, page.raw)>>
    ELSE IF page.kind = "html" THEN extractProductsFromHtml(build, <<page.raw>>)
    ELSE <<>>

DetailKinds == IF build = "part_000" THEN {"state", "jsonld", "html", "none"}
               ELSE {"jsonld", "html", "none"}

\* requestHandler for a DETAIL task: the ceiling guard, the merge onto the
\* carried base record, saveItems([merged]).
HandleDetail(w) ==
    /\ pc[w] = "idle"
    /\ runs < MaxHandlerRuns
    /\ \E task \in requestQueue.pending :
          /\ requestQueue' = [requestQueue EXCEPT !.pending = @ \ {task}]
          /\ IF itemsSaved >= MAX_ITEMS
             THEN UNCHANGED <<seenKeys, savedProductIds, pc, local>>
             ELSE \E page \in { d \in DetailPages(catalog) : d.kind \in DetailKinds } :
                    LET found == detailOf(page)
                        merged == IF found = <<>> THEN task.base
                                  ELSE mergeDetail(task.base, found[1], task.url)
                    IN SaveItemsCall(w, <<merged>>, <<>>)
    /\ runs' = runs + 1
    /\ UNCHANGED <<build, catalog, maxConcurrency, MAX_ITEMS, scrapeDetails, cfg, itemsSaved, itemsEnqueued,
                   detailQueued, sink>>

vars == <<engineVars, pureVars, pagingVars, crawlVars>>

NextEngine ==
    /\ \E w \in Workers :
          \/ OfferProducts(w)
          \/ PushDone(w)
          \/ PushFail(w)
          \/ AddDone(w)
          \/ HandleDetail(w)
    /\ UNCHANGED <<pureVars, pagingVars, crawlVars>>

InitEngine == InitState(MaxConcurrency) /\ PureParked /\ PagingParked /\ CrawlParked

\* The crawl with concurrent request handlers.
Spec == InitEngine /\ [][NextEngine]_vars

\* The crawl with maxConcurrency 1: each handler completes before the next
\* one starts.
InitSeq == InitState(1) /\ PureParked /\ PagingParked /\ CrawlParked

SpecSeq == InitSeq /\ [][NextEngine]_vars

\* ------------------------------------------------------ passesFilters alone
\* No crawl runs.
EngineParked ==
    /\ build = "part_000"
    /\ catalog = {}
    /\ maxConcurrency = 0
    /\ MAX_ITEMS = DEFAULT_MAX_ITEMS
    /\ scrapeDetails = FALSE
    /\ cfg = NoFilters
    /\ itemsSaved = 0
    /\ itemsEnqueued = 0
    /\ seenKeys = {}
    /\ savedProductIds = {}
    /\ detailQueued = {}
    /\ requestQueue = [pending |-> {}, keys |-> {}]
    /\ sink = <<>>
    /\ pc = <<>>
    /\ local = <<>>
    /\ runs = 0

\* Strings of up to MaxStrLen characters, lists of up to MaxEntries strings.
Strings == SeqsOf(Chars, MaxStrLen)
StringLists == SeqsOf(Strings, MaxEntries)

\* The prices and bounds of the filter runs.
PriceValues == {0, 50, 100, 120, 150}

FilterItem(price, brand, colors, sizes) ==
    Item([product |-> TRUE, path |-> "a", query |-> FALSE], "t", Null, price, NoNum,
         brand, colors, sizes)

\* Runs that vary the price and the price bounds, with and without a color
\* filter beside them.
PriceRuns ==
    { [cfg |-> Config(<<>>, c, <<>>, lo, hi), item |-> FilterItem(p, <<>>, <<<<"e">>>>, <<>>)] :
        c \in {<<>>, <<"e">>, <<"r">>},
        lo \in PriceValues \cup {NoNum}, hi \in PriceValues \cup {NoNum},
        p \in PriceValues \cup {NoNum} }

\* Runs that vary the color (size) filter and the extracted colors (sizes).
ColorRuns ==
    { [cfg |-> Config(<<>>, c, <<>>, NoNum, NoNum), item |-> FilterItem(NoNum, <<>>, l, <<>>)] :
        c \in Strings, l \in StringLists }

SizeRuns ==
    { [cfg |-> Config(<<>>, <<>>, c, NoNum, NoNum), item |-> FilterItem(NoNum, <<>>, <<>>, l)] :
        c \in Strings, l \in StringLists }

\* Runs that vary the brand filter and the brand.
BrandRuns ==
    { [cfg |-> Config(c, <<>>, <<>>, NoNum, NoNum), item |-> FilterItem(NoNum, b, <<>>, <<>>)] :
        c \in Strings, b \in Strings }

InitFilter ==
    /\ EngineParked
    /\ PagingParked
    /\ CrawlParked
    /\ input \in PriceRuns \cup ColorRuns \cup SizeRuns \cup BrandRuns
    /\ output = None

\* saveItems evaluates passesFilters(item) under the run's filters.
ApplyFilters ==
    /\ output = None
    /\ output' = [passes |-> passesFilters(input.cfg, input.item)]
    /\ UNCHANGED <<input, engineVars, pagingVars, crawlVars>>

SpecFilter == InitFilter /\ [][ApplyFilters]_vars

\* C8: a record with a known price passes the filters only if it lies within
\* the configured bounds (both inclusive), and when no other filter is
\* configured it passes exactly then; a record with an unknown price is
\* never rejected for its price.
PriceWithinBounds(c, item) ==
    /\ (c.minPrice # NoNum => c.minPrice <= item.price)
    /\ (c.maxPrice # NoNum => item.price <= c.maxPrice)

OnlyPriceConfigured(c) == c.brand = <<>> /\ c.color = <<>> /\ c.size = <<>>

C8_PriceFilter ==
    (input \in PriceRuns /\ output # None) =>
        /\ (input.item.price # NoNum /\ output.passes) => PriceWithinBounds(input.cfg, input.item)
        /\ (input.item.price # NoNum /\ OnlyPriceConfigured(input.cfg))
              => (output.passes <=> PriceWithinBounds(input.cfg, input.item))
        /\ (input.item.price = NoNum /\ OnlyPriceConfigured(input.cfg)) => output.passes

\* Price 120 under the bounds 50..100 has been rejected.
C8_Witness ==
    /\ input \in PriceRuns
    /\ OnlyPriceConfigured(input.cfg)
    /\ input.item.price = 120 /\ input.cfg.minPrice = 50 /\ input.cfg.maxPrice = 100
    /\ output # None /\ ~output.passes

\* Two characters are the same letter, whatever their case.
SameLetter(a, b) == a = b \/ {a, b} = {"r", "R"}

\* entry contains text, compared case-insensitively.
ContainsIgnoringCase(entry, text) ==
    \E i \in 0..(Len(entry) - Len(text)) :
        \A k \in 1..Len(text) : SameLetter(entry[i + k], text[k])

\* C9: under a color (size) filter a record with no extracted colors (sizes)
\* passes, and a record with some passes exactly if one of them contains the
\* filter text, compared case-insensitively.
SetFilterHolds(text, entries, passes) ==
    text # <<>> =>
        /\ (entries = <<>> => passes)
        /\ (entries # <<>> =>
              (passes <=> \E k \in DOMAIN entries : ContainsIgnoringCase(entries[k], text)))

C9_SetFilters ==
    /\ (input \in ColorRuns /\ output # None)
          => SetFilterHolds(input.cfg.color, input.item.colors, output.passes)
    /\ (input \in SizeRuns /\ output # None)
          => SetFilterHolds(input.cfg.size, input.item.sizes, output.passes)

\* ------------------------------------------------------------ listing paging
\* One listing task is followed through its channels and paging loops; the
\* records are left out, what remains of enqueueOrSaveDetails is how far it
\* raises the counters.  Other handlers raise the shared counters as well.
\* part_000: preloaded hits, API paging loop, else grid paging loop.
\* main_js : API (or the preloaded hits in its place) with the paging loop,
\*           else JSON-LD and HTML products and the next page as a new LIST
\*           task that carries pageNum + 1.
MaxPagesBound == 4      \* MAX_PAGES ranges over 1..MaxPagesBound
MaxHits == 2            \* hits of one API response

\* The totals, limits and offsets an API response can report (NoNum: the
\* field is missing or not a finite number).
Totals == {NoNum, 40, 55}
Limits == {NoNum, 0, 20}
StartOffsets == {0, 20}

\* What tryProductSearchApi returns: null (hits = -1), a body with an empty
\* hits array (its metadata is never read), or a body with hits and the
\* metadata it reports.
ApiResults(requested) ==
    { [hits |-> h, total |-> t, limit |-> l, offset |-> o] :
        h \in 1..MaxHits, t \in Totals, l \in Limits, o \in {NoNum, requested, 40} }
    \cup { [hits |-> h, total |-> NoNum, limit |-> NoNum, offset |-> NoNum] : h \in {-1, 0} }

\* The locals of the handler of a LIST task with userData.pageNum = page;
\* pages counts the pages processed since the seed task, this one included.
ListTask(page, pages) ==
    [pc |-> "queued", usedApi |-> FALSE, usedPreloaded |-> FALSE,
     preloaded |-> 0, gridable |-> FALSE, hasNext |-> FALSE,
     startOffset |-> 0, pageSize |-> DEFAULT_PAGE_SIZE, total |-> NoNum,
     offset |-> 0, firstOffset |-> 0, limit |-> 0,
     startPage |-> page, pageNum |-> page, fetches |-> 0, pages |-> pages,
     requested |-> <<>>, gridRequested |-> <<>>, lastGrid |-> 1, failed |-> FALSE,
     stop |-> "none"]

InitPaging ==
    /\ PureParked
    /\ CrawlParked
    /\ build \in Builds
    /\ catalog = {}
    /\ maxConcurrency = 1
    /\ MAX_ITEMS \in 1..MaxItemsBound
    /\ scrapeDetails \in BOOLEAN
    /\ cfg = NoFilters
    /\ itemsSaved = 0
    /\ itemsEnqueued = 0
    /\ seenKeys = {}
    /\ savedProductIds = {}
    /\ detailQueued = {}
    /\ requestQueue = [pending |-> {}, keys |-> {}]
    /\ sink = <<>>
    /\ pc = <<>>
    /\ local = <<>>
    /\ runs = 0
    /\ MAX_PAGES \in 1..MaxPagesBound
    /\ listing = ListTask(1, 1)

pagingFrame ==
    <<build, catalog, maxConcurrency, MAX_ITEMS, scrapeDetails, cfg, seenKeys,
      savedProductIds, detailQueued, requestQueue, sink, pc, local, runs, MAX_PAGES,
      crawlVars>>

\* enqueueOrSaveDetails(mapped) for n mapped hits, reduced to the counters it
\* raises: nothing once the ceiling is reached, else between none (all
\* duplicates or filtered out) and all of them, cut at the ceiling.
\* part_000 raises itemsSaved in listing mode and itemsEnqueued in detail
\* mode; main_js saves in both modes and queues as well in detail mode.
RaiseProgress(n) ==
    \E k \in 0..n, j \in 0..n :
        IF build = "part_000"
        THEN /\ j = 0
             /\ k <= MAX_ITEMS - getProgressCount \/ k = 0
             /\ IF scrapeDetails
                THEN itemsEnqueued' = itemsEnqueued + k /\ UNCHANGED itemsSaved
                ELSE itemsSaved' = itemsSaved + k /\ UNCHANGED itemsEnqueued
        ELSE /\ k <= MAX_ITEMS - itemsSaved \/ k = 0
             /\ itemsSaved' = itemsSaved + k
             /\ IF scrapeDetails
                THEN /\ j <= MAX_ITEMS - itemsEnqueued \/ j = 0
                     /\ itemsEnqueued' = itemsEnqueued + j
                ELSE j = 0 /\ UNCHANGED itemsEnqueued

\* The progress counter after the step.
progressAfter == IF scrapeDetails THEN itemsEnqueued' ELSE itemsSaved'

Finish(reason) == listing' = [listing EXCEPT !.pc = "done", !.stop = reason]

\* A guard of the grid section that forgets the API.
gridGuardAfterApi(usedPreloaded, usedApi, reached) == usedPreloaded /\ ~reached

\* if (!isGridRequest && usedPreloaded && !usedApi && !hasReachedTarget())
gridGuard(usedPreloaded, usedApi, reached) == usedPreloaded /\ ~usedApi /\ ~reached

\* What follows the API section, for the locals l of the handler.
\* part_000: the grid paging loop when the preloaded hits were used, the API
\*           was not, the target is not reached and siteId and cgid are
\*           known.
\* main_js : the fallback section of the page.
AfterApi(l, reason) ==
    IF build = "part_000"
    THEN IF gridGuard(l.usedPreloaded, l.usedApi, progressAfter >= MAX_ITEMS) /\ l.gridable
         THEN listing' = [l EXCEPT !.pc = "grid", !.offset = l.startOffset,
                                   !.pageNum = l.startPage]
         ELSE listing' = [l EXCEPT !.pc = "done", !.stop = reason]
    ELSE listing' = [l EXCEPT !.pc = "fallback", !.stop = reason]

\* An advance that skips a page.
nextOffsetSkipping(offset, step) == offset + step + step

\* offset += limit; offset += pageSize
nextOffset(offset, step) == offset + step

\* What a continuation fetch can bring: a transport error, or a response
\* with its status and the hits (or grid products) of its body.
PageOutcomes ==
    { [kind |-> "error", status |-> 0, hits |-> 0] }
    \cup { [kind |-> "response", status |-> st, hits |-> h] : st \in {200, 500}, h \in 0..MaxHits }

failure(outcome) == outcome.kind = "error" \/ outcome.status \notin 200..299

\* A fetch that hands on the body whatever the status.
bodyOrNullAnyStatus(outcome) == IF outcome.kind = "error" THEN -1 ELSE outcome.hits

\* fetchJson, fetchHtml: the body of a 2xx response, null (-1) otherwise.
bodyOrNull(outcome) ==
    IF outcome.kind = "error" THEN -1
    ELSE IF outcome.status >= 200 /\ outcome.status < 300 THEN outcome.hits
    ELSE -1

\* requestHandler of a LIST task up to its first API call: the ceiling
\* guards, the start offset of the page, the preloaded hits (part_000), and
\* the API call at the start offset when the credentials are complete (and,
\* part_000, the target is not reached).
StartListing ==
    /\ listing.pc = "queued"
    /\ IF \/ itemsSaved >= MAX_ITEMS
          \/ (build = "part_000" /\ scrapeDetails /\ itemsEnqueued >= MAX_ITEMS)
       THEN Finish("guard") /\ UNCHANGED <<itemsSaved, itemsEnqueued>>
       ELSE \E start \in StartOffsets, preloaded \in 0..1, credentials \in BOOLEAN,
               gridable \in BOOLEAN, hasNext \in BOOLEAN :
              LET l == [listing EXCEPT !.startOffset = start, !.preloaded = preloaded,
                                       !.gridable = gridable, !.hasNext = hasNext,
                                       !.usedPreloaded = (build = "part_000" /\ preloaded > 0)]
              IN /\ IF build = "part_000" THEN RaiseProgress(preloaded)
                    ELSE UNCHANGED <<itemsSaved, itemsEnqueued>>
                 /\ IF credentials /\ ~(build = "part_000" /\ progressAfter >= MAX_ITEMS)
                    THEN listing' = [l EXCEPT !.pc = "first", !.requested = <<start>>]
                    ELSE AfterApi(l, "noapi")
    /\ UNCHANGED <<pagingFrame, pureVars>>

\* An end-of-results test that lets the offset reach the total.
endOfResultsStrict(offset, limit, total) == total # NoNum /\ offset + limit > total

\* if (total !== null && offset + limit >= total) break;
endOfResults(offset, limit, total) == total # NoNum /\ offset + limit >= total

\* A page-ceiling test that lets the page number pass MAX_PAGES.
belowPageCeilingLate(pageNum, maxPages) == pageNum <= maxPages

\* pageNum < MAX_PAGES, the second half of both loop conditions.
belowPageCeiling(pageNum, maxPages) == pageNum < maxPages

\* total, limit and offset of the embedded product-search state, where
\* they are read: main_js, when the embedded hits stand in for the API's.
PreloadedMeta(read) ==
    IF read
    THEN { [total |-> t, limit |-> l, offset |-> o] :
             t \in Totals, l \in Limits, o \in {NoNum} \cup StartOffsets }
    ELSE { [total |-> NoNum, limit |-> NoNum, offset |-> NoNum] }

\* value || fallback for a number: 0 and a missing value give the fallback.
orElse(value, fallback) == IF value = NoNum \/ value = 0 THEN fallback ELSE value

\* main_js: when the first API call brings no hits and the page embeds
\* product-search hits, these take the place of the API response.
firstData(l, apiData, meta) ==
    IF build = "main_js" /\ apiData.hits <= 0 /\ l.preloaded > 0
    THEN [hits |-> l.preloaded, total |-> orElse(meta.total, NoNum),
          limit |-> orElse(meta.limit, l.pageSize), offset |-> orElse(meta.offset, 0)]
    ELSE apiData

\* The first API call returns: without hits the API channel is not used;
\* with hits they are handed on and total, offset and limit are taken from
\* the response (offset and limit fall back to the request's values).
FirstResponse ==
    /\ listing.pc = "first"
    /\ \E response \in ApiResults(listing.startOffset) :
       \E meta \in PreloadedMeta(build = "main_js" /\ response.hits <= 0 /\ listing.preloaded > 0) :
          LET apiData == firstData(listing, response, meta)
          IN IF apiData.hits <= 0
             THEN UNCHANGED <<itemsSaved, itemsEnqueued>> /\ AfterApi(listing, "nohits")
             ELSE /\ RaiseProgress(apiData.hits)
                  /\ LET off == IF apiData.offset # NoNum THEN apiData.offset
                                 ELSE listing.startOffset
                     IN listing' = [listing EXCEPT
                          !.pc = "loop", !.usedApi = TRUE,
                          !.total = apiData.total,
                          !.offset = off, !.firstOffset = off,
                          !.limit = IF apiData.limit # NoNum THEN apiData.limit
                                    ELSE listing.pageSize,
                          !.pageNum = listing.startPage]
    /\ UNCHANGED <<pagingFrame, pureVars>>

\* One evaluation of the while condition and of the loop body up to the
\* next API call.
LoopStep ==
    /\ listing.pc = "loop"
    /\ UNCHANGED <<pagingFrame, pureVars, itemsSaved, itemsEnqueued>>
    /\ IF hasReachedTarget THEN AfterApi(listing, "target")
       ELSE IF ~belowPageCeiling(listing.pageNum, MAX_PAGES) THEN AfterApi(listing, "pages")
       ELSE IF endOfResults(listing.offset, listing.limit, listing.total)
       THEN AfterApi(listing, "total")
       ELSE listing' = [listing EXCEPT
                !.pc = "fetch",
                !.offset = nextOffset(listing.offset, listing.limit),
                !.pageNum = listing.pageNum + 1,
                !.fetches = listing.fetches + 1,
                !.pages = listing.pages + 1,
                !.requested = Append(listing.requested,
                                     nextOffset(listing.offset, listing.limit))]

\* A continuation call returns (only nextData.hits is read): without hits
\* the loop breaks, with hits they are handed on and the loop condition is
\* evaluated again.
NextResponse ==
    /\ listing.pc = "fetch"
    /\ \E outcome \in PageOutcomes :
          LET hits == bodyOrNull(outcome)
              l == [listing EXCEPT !.failed = @ \/ failure(outcome)]
          IN IF hits <= 0
             THEN UNCHANGED <<itemsSaved, itemsEnqueued>> /\ AfterApi(l, "empty")
             ELSE /\ RaiseProgress(hits)
                  /\ listing' = [l EXCEPT !.pc = "loop"]
    /\ UNCHANGED <<pagingFrame, pureVars>>

\* part_000: one evaluation of the grid loop's condition and of its body up
\* to the fetch of the next grid page.
GridStep ==
    /\ listing.pc = "grid"
    /\ IF hasReachedTarget THEN Finish("target")
       ELSE IF ~belowPageCeiling(listing.pageNum, MAX_PAGES) THEN Finish("pages")
       ELSE listing' = [listing EXCEPT
                !.pc = "gridfetch",
                !.offset = nextOffset(listing.offset, listing.pageSize),
                !.pageNum = listing.pageNum + 1,
                !.fetches = listing.fetches + 1,
                !.pages = listing.pages + 1,
                !.gridRequested = Append(listing.gridRequested,
                                         nextOffset(listing.offset, listing.pageSize))]
    /\ UNCHANGED <<pagingFrame, pureVars, itemsSaved, itemsEnqueued>>

\* A grid loop that goes on after a page without products.
gridBreaksOnNull(gridProducts) == gridProducts < 0

\* if (!gridHtml) break; ... if (!gridProducts.length) break;
gridBreaks(gridProducts) == gridProducts <= 0

\* part_000: fetchHtml of the grid page returns: null or a page without
\* products breaks the loop (gridProducts = -1, 0), products are handed on
\* and the loop goes on unless the target is reached.
GridResponse ==
    /\ listing.pc = "gridfetch"
    /\ \E outcome \in PageOutcomes :
          LET gridProducts == bodyOrNull(outcome)
              l == [listing EXCEPT !.failed = @ \/ failure(outcome),
                                   !.lastGrid = gridProducts]
          IN IF gridBreaks(gridProducts)
             THEN /\ listing' = [l EXCEPT !.pc = "done", !.stop = "gridempty"]
                  /\ UNCHANGED <<itemsSaved, itemsEnqueued>>
             ELSE /\ RaiseProgress(gridProducts)
                  /\ IF progressAfter >= MAX_ITEMS
                     THEN listing' = [l EXCEPT !.pc = "done", !.stop = "target"]
                     ELSE listing' = [l EXCEPT !.pc = "grid"]
    /\ UNCHANGED <<pagingFrame, pureVars>>

\* main_js: what follows the API section.  When the API was not used, the
\* JSON-LD and HTML products of the page are handed on while itemsSaved is
\* below the ceiling; then the next page, when one is found, is queued as a
\* LIST task with pageNum + 1, which the crawler handles next.
Fallback ==
    /\ listing.pc = "fallback"
    /\ \E products \in 0..MaxHits :
          IF ~listing.usedApi /\ itemsSaved < MAX_ITEMS THEN RaiseProgress(products)
          ELSE products = 0 /\ UNCHANGED <<itemsSaved, itemsEnqueued>>
    /\ IF ~listing.usedApi /\ itemsEnqueued' < MAX_ITEMS
          /\ belowPageCeiling(listing.startPage, MAX_PAGES) /\ listing.hasNext
       THEN listing' = ListTask(listing.startPage + 1, listing.pages + 1)
       ELSE IF listing.usedApi THEN listing' = [listing EXCEPT !.pc = "done"]
       ELSE Finish("nonext")
    /\ UNCHANGED <<pagingFrame, pureVars>>

\* Another request handler (the LIST task of another start URL) saves a
\* record or queues a DETAIL task while this one is suspended, or waits in
\* the queue.
OtherHandler ==
    /\ listing.pc \in {"queued", "first", "fetch", "loop", "grid", "gridfetch", "fallback"}
    /\ getProgressCount < MAX_ITEMS
    /\ RaiseProgress(1)
    /\ progressAfter > getProgressCount
    /\ UNCHANGED <<pagingFrame, pureVars, listing>>

NextPaging ==
    \/ StartListing
    \/ FirstResponse
    \/ LoopStep
    \/ NextResponse
    \/ GridStep
    \/ GridResponse
    \/ Fallback
    \/ OtherHandler

SpecPaging == InitPaging /\ [][NextPaging]_vars

\* ------------------------------------------------------- listing channels
\* The channels requestHandler tries for one listing page, in the order of
\* the code, reduced to the number of products each one hands to
\* enqueueOrSaveDetails.  A page is what the channels would find:
\*   credentials : shortCode, clientId, organizationId and siteId are all there
\*   preloaded   : hits of the embedded product-search state
\*   jsonLd      : products of the page's JSON-LD markup
\*   tiles       : product tiles of the page's HTML
\*   api         : hits of the first product-search API call (-1: null)
\*   grid        : product tiles of the next grid page (-1: fetch failed)
\*   gridable    : siteId and cgid are known for the grid URL
ListingPages ==
    [credentials : BOOLEAN, preloaded : 0..MaxBatch, jsonLd : 0..MaxBatch,
     tiles : 0..MaxBatch, api : -1..MaxBatch, grid : -1..MaxBatch, gridable : BOOLEAN]

\* The handler's progress: the channels tried so far, the products handed
\* to enqueueOrSaveDetails, and the counters.
NoChannel == [tried |-> <<>>, handed |-> 0, saved |-> 0, enqueued |-> 0]

\* A channel is evaluated.
Tried(c, channel) == [c EXCEPT !.tried = Append(@, channel)]

\* await enqueueOrSaveDetails(products) for n products, all of them new and
\* acceptable, under the ceiling max.
\* part_000: queues DETAIL tasks in detail mode, saves in listing mode.
\* main_js : saves first, then queues DETAIL tasks in detail mode.
Offer(b, details, max, c, n) ==
    LET room(count) == IF count >= max THEN 0 ELSE IF count + n > max THEN max - count ELSE n
    IN IF n = 0 THEN c
       ELSE IF b = "part_000"
       THEN IF details
            THEN [c EXCEPT !.handed = @ + n, !.enqueued = @ + room(c.enqueued)]
            ELSE [c EXCEPT !.handed = @ + n, !.saved = @ + room(c.saved)]
       ELSE [c EXCEPT !.handed = @ + n, !.saved = @ + room(c.saved),
                      !.enqueued = IF details THEN @ + room(c.enqueued) ELSE @]

\* part_000: the embedded hits, then the API when the target is not reached
\* and the credentials are complete, then grid paging when only the embedded
\* hits were used.  The page's JSON-LD and tiles are not read.
channelsPart000(details, max, maxPages, page) ==
    LET reached(c) == (IF details THEN c.enqueued ELSE c.saved) >= max
        usedPreloaded == page.preloaded > 0
        c1 == IF usedPreloaded
              THEN Offer("part_000", details, max, Tried(NoChannel, "state"), page.preloaded)
              ELSE NoChannel
        callsApi == ~reached(c1) /\ page.credentials
        usedApi == callsApi /\ page.api > 0
        c2 == IF callsApi
              THEN Offer("part_000", details, max, Tried(c1, "api"),
                         IF page.api > 0 THEN page.api ELSE 0)
              ELSE c1
    IN IF usedPreloaded /\ ~usedApi /\ ~reached(c2) /\ page.gridable
          /\ belowPageCeiling(1, maxPages)
       THEN Offer("part_000", details, max, Tried(c2, "grid"),
                  IF page.grid > 0 THEN page.grid ELSE 0)
       ELSE c2

\* main_js: with complete credentials the API, and the embedded hits when
\* the API brings none; when that gave nothing, JSON-LD and then the HTML
\* tiles while itemsSaved is below the ceiling; the sitemap when nothing was
\* saved or queued at all.
channelsMainJs(details, max, page) ==
    LET fromState == page.credentials /\ page.api <= 0 /\ page.preloaded > 0
        hits == IF ~page.credentials THEN 0
                ELSE IF fromState THEN page.preloaded
                ELSE IF page.api > 0 THEN page.api ELSE 0
        usedApi == hits > 0
        c0 == IF page.credentials THEN Tried(NoChannel, "api") ELSE NoChannel
        c1 == Offer("main_js", details, max,
                    IF fromState THEN Tried(c0, "state") ELSE c0, hits)
        c2 == IF ~usedApi /\ c1.saved < max
              THEN Offer("main_js", details, max, Tried(c1, "jsonLd"), page.jsonLd)
              ELSE c1
        c3 == IF ~usedApi /\ c2.saved < max
              THEN Offer("main_js", details, max, Tried(c2, "tiles"), page.tiles)
              ELSE c2
    IN IF c3.saved = 0 /\ c3.enqueued = 0 /\ ~usedApi THEN Tried(c3, "sitemap") ELSE c3

listingChannels(b, details, max, maxPages, page) ==
    IF b = "part_000" THEN channelsPart000(details, max, maxPages, page)
    ELSE channelsMainJs(details, max, page)

InitChannels ==
    /\ PagingParked
    /\ CrawlParked
    /\ build \in Builds
    /\ catalog = {}
    /\ maxConcurrency = 1
    /\ MAX_ITEMS \in 1..MaxItemsBound
    /\ scrapeDetails \in BOOLEAN
    /\ cfg = NoFilters
    /\ itemsSaved = 0
    /\ itemsEnqueued = 0
    /\ seenKeys = {}
    /\ savedProductIds = {}
    /\ detailQueued = {}
    /\ requestQueue = [pending |-> {}, keys |-> {}]
    /\ sink = <<>>
    /\ pc = <<>>
    /\ local = <<>>
    /\ runs = 0
    /\ input \in ListingPages
    /\ output = None

\* requestHandler handles the first page of a listing.
HandleListing ==
    /\ output = None
    /\ output' = listingChannels(build, scrapeDetails, MAX_ITEMS, MAX_PAGES, input)
    /\ itemsSaved' = output'.saved
    /\ itemsEnqueued' = output'.enqueued
    /\ UNCHANGED <<input, build, catalog, maxConcurrency, MAX_ITEMS, scrapeDetails, cfg,
                   seenKeys, savedProductIds, detailQueued, requestQueue, sink, pc, local,
                   runs, pagingVars, crawlVars>>

SpecChannels == InitChannels /\ [][HandleListing]_vars

\* ------------------------------------------------------------ page extraction
\* The functions that read products out of one page, each applied alone to
\* inputs drawn from bounded sets.

\* The tokens a string literal of an embedded object is built from.
MaxTokens == 2

Quote == "\""
Backslash == "\\"
OpenBrace == "{"
CloseBrace == "}"

NoMatch == [found |-> FALSE]

\* The branch of extractJsonObject's loop taken inside a string literal:
\* the flags after the character ch.
stringStepNoEscape(ch, escaped) ==
    IF ch = Quote THEN [inString |-> FALSE, escaped |-> FALSE]
    ELSE [inString |-> TRUE, escaped |-> FALSE]

stringStep(ch, escaped) ==
    IF escaped THEN [inString |-> TRUE, escaped |-> FALSE]
    ELSE IF ch = Backslash THEN [inString |-> TRUE, escaped |-> TRUE]
    ELSE IF ch = Quote THEN [inString |-> FALSE, escaped |-> FALSE]
    ELSE [inString |-> TRUE, escaped |-> FALSE]

\* The loop of extractJsonObject from index i on. Indices are 1-based here,
\* so text.slice(startIndex, i + 1) is SubSeq(text, startIndex, i).
RECURSIVE scanJsonObject(_, _, _, _, _, _)
scanJsonObject(text, startIndex, i, depth, inString, escaped) ==
    IF i > Len(text) THEN NoMatch
    ELSE LET ch == text[i]
         IN IF inString
            THEN LET after == stringStep(ch, escaped)
                 IN scanJsonObject(text, startIndex, i + 1, depth, after.inString, after.escaped)
            ELSE IF ch = Quote
            THEN scanJsonObject(text, startIndex, i + 1, depth, TRUE, escaped)
            ELSE IF ch = OpenBrace
            THEN scanJsonObject(text, startIndex, i + 1, depth + 1, FALSE, escaped)
            ELSE IF ch = CloseBrace
            THEN IF depth - 1 = 0
                 THEN [found |-> TRUE, text |-> SubSeq(text, startIndex, i)]
                 ELSE scanJsonObject(text, startIndex, i + 1, depth - 1, FALSE, escaped)
            ELSE scanJsonObject(text, startIndex, i + 1, depth, FALSE, escaped)

extractJsonObject(text, startIndex) ==
    scanJsonObject(text, startIndex, startIndex, 0, FALSE, FALSE)

\* Texts to scan. A string literal is a run of tokens between two quotes: a
\* letter, a brace, an escaped quote or an escaped backslash.
StringTokens ==
    { <<"a">>, <<OpenBrace>>, <<CloseBrace>>, <<Backslash, Quote>>, <<Backslash, Backslash>> }

RECURSIVE flat(_)
flat(parts) == IF parts = <<>> THEN <<>> ELSE Head(parts) \o flat(Tail(parts))

StringLiterals == { <<Quote>> \o flat(ts) \o <<Quote>> : ts \in SeqsOf(StringTokens, MaxTokens) }

\* An object holds a string literal or nothing, then nothing, an empty
\* object or an object holding the same literal.
JsonObjects ==
    UNION { { <<OpenBrace>> \o s \o <<CloseBrace>>,
              <<OpenBrace>> \o s \o <<OpenBrace, CloseBrace, CloseBrace>>,
              <<OpenBrace>> \o s \o <<OpenBrace>> \o s \o <<CloseBrace, CloseBrace>> } :
            s \in StringLiterals \cup {<<>>} }

\* What precedes the object in the page, and what follows it.
Prefixes == { <<>>, <<Quote>>, <<"a", CloseBrace>> }
Suffixes == { <<>>, <<CloseBrace>>, <<Quote, CloseBrace>>, <<"a", OpenBrace>> }

\* The object whole between a prefix and a suffix, or cut short before its
\* closing brace.
ScanInputs ==
    { [op |-> "extractJsonObject", text |-> p \o obj \o s, startIndex |-> Len(p) + 1,
       object |-> obj, whole |-> TRUE] : p \in Prefixes, obj \in JsonObjects, s \in Suffixes }
    \cup
    UNION { { [op |-> "extractJsonObject", text |-> p \o SubSeq(obj, 1, k),
               startIndex |-> Len(p) + 1, object |-> obj, whole |-> FALSE] :
                p \in Prefixes, k \in 1..(Len(obj) - 1) } : obj \in JsonObjects }

\* The structured-data blocks one page carries at most.
MaxBlocks == 3

\* An exception on its way up.
Thrown == [thrown |-> TRUE]

\* text.indexOf(ch, from) with 1-based indices: 0 when ch is absent.
RECURSIVE indexOf(_, _, _)
indexOf(text, ch, from) ==
    IF from > Len(text) THEN 0
    ELSE IF text[from] = ch THEN from
    ELSE indexOf(text, ch, from + 1)

\* JSON.parse(raw): the page tells whether the text is JSON and what it holds.
JSONparse(json) ==
    IF json = "invalid" THEN Thrown ELSE [thrown |-> FALSE, value |-> json]

\* The token is one character here.
StateToken == "T"

\* extractJsonAfterToken up to its call of JSON.parse: where the object it
\* hands to the parser starts (0: it returns null before), and the text.
rawAfterToken(html, token) ==
    LET tokenIndex == indexOf(html, token, 1)
        separatorIndex == indexOf(html, ":", tokenIndex + 1)
        assignIndex == indexOf(html, "=", tokenIndex + 1)
        pivot == IF separatorIndex # 0 THEN separatorIndex ELSE assignIndex
        startIndex == indexOf(html, OpenBrace, pivot)
        raw == extractJsonObject(html, startIndex)
    IN IF tokenIndex = 0 THEN [startIndex |-> 0, raw |-> NoMatch]
       ELSE IF pivot = 0 THEN [startIndex |-> 0, raw |-> NoMatch]
       ELSE IF startIndex = 0 THEN [startIndex |-> 0, raw |-> NoMatch]
       ELSE [startIndex |-> startIndex, raw |-> raw]

extractJsonAfterToken(html, token, json) ==
    LET raw == rawAfterToken(html, token).raw
        parsed == JSONparse(json)
    IN IF ~raw.found THEN Null
       ELSE IF parsed.thrown THEN Null
       ELSE parsed.value

extractPreloadedState(html, json) == extractJsonAfterToken(html, StateToken, json)

\* The state "withProduct" holds a product query, the state "empty" none.
StateProduct == "fromState"

extractProductDetailFromState(state) ==
    IF state = "withProduct" THEN StateProduct ELSE Null

\* The Product nodes of one parsed block: the nodes of type Product and the
\* Product items of the nodes of type ItemList.
RECURSIVE productItems(_)
productItems(items) ==
    IF items = <<>> THEN <<>>
    ELSE (IF Head(items).type = "Product" THEN <<Head(items).id>> ELSE <<>>)
         \o productItems(Tail(items))

RECURSIVE productNodes(_)
productNodes(nodes) ==
    IF nodes = <<>> THEN <<>>
    ELSE LET node == Head(nodes)
         IN (IF node.type = "Product" THEN <<node.id>> ELSE <<>>)
            \o (IF node.type = "ItemList" THEN productItems(node.itemListElement) ELSE <<>>)
            \o productNodes(Tail(nodes))

\* The callback of .each for one script block, with and without its catch.
scriptBlockUncaught(block) ==
    IF block.raw = "blank" THEN [thrown |-> FALSE, products |-> <<>>]
    ELSE LET data == JSONparse(block.raw)
         IN IF data.thrown THEN Thrown
            ELSE [thrown |-> FALSE, products |-> productNodes(block.nodes)]

scriptBlock(block) ==
    IF block.raw = "blank" THEN [thrown |-> FALSE, products |-> <<>>]
    ELSE LET data == JSONparse(block.raw)
         IN IF data.thrown THEN [thrown |-> FALSE, products |-> <<>>]
            ELSE [thrown |-> FALSE, products |-> productNodes(block.nodes)]

RECURSIVE eachBlock(_, _, _)
eachBlock(blocks, i, products) ==
    IF i > Len(blocks) THEN [thrown |-> FALSE, products |-> products]
    ELSE LET found == scriptBlock(blocks[i])
         IN IF found.thrown THEN Thrown
            ELSE eachBlock(blocks, i + 1, products \o found.products)

extractJsonLdProducts(blocks) == eachBlock(blocks, 1, <<>>)

\* The DETAIL branch up to its choice of the detail record: the embedded
\* state (part_000 only) before the first structured-data product.
detailChannels(b, page) ==
    LET preloadedState == IF b = "part_000" THEN extractPreloadedState(page.html, page.json)
                          ELSE Null
        detailFromState == IF preloadedState # Null
                           THEN extractProductDetailFromState(preloadedState)
                           ELSE Null
        detailProducts == extractJsonLdProducts(page.blocks)
    IN IF detailProducts.thrown THEN Thrown
       ELSE [thrown |-> FALSE,
             jsonLd |-> detailProducts.products,
             detail |-> IF detailFromState # Null THEN detailFromState
                        ELSE IF detailProducts.products # <<>> THEN Head(detailProducts.products)
                        ELSE Null]

\* Script blocks: blank, not JSON, or JSON with its nodes.
Thing == [type |-> "Thing"]
ProductNode(id) == [type |-> "Product", id |-> id]

JsonLdBlocks ==
    { [raw |-> "blank", nodes |-> <<>>],
      [raw |-> "invalid", nodes |-> <<>>],
      [raw |-> "json", nodes |-> <<>>],
      [raw |-> "json", nodes |-> <<ProductNode("p1")>>],
      [raw |-> "json", nodes |-> <<Thing, ProductNode("p2")>>],
      [raw |-> "json", nodes |-> <<[type |-> "ItemList",
                                     itemListElement |-> <<ProductNode("p3"), Thing>>]>>] }

\* The embedded state of a page: none, an object cut before its closing
\* brace, an object that is not JSON, or a state with or without a product.
StateObject == <<OpenBrace, Quote, CloseBrace, OpenBrace, Quote, OpenBrace, CloseBrace, CloseBrace>>

EmbeddedStates ==
    { [kind |-> "absent", html |-> <<"a", OpenBrace, CloseBrace>>, json |-> "invalid"],
      [kind |-> "noObject", html |-> <<StateToken, "=", "a">>, json |-> "invalid"] }
    \cup
    { [kind |-> "cut", html |-> <<"a", StateToken, sep>> \o SubSeq(StateObject, 1, k),
       json |-> "invalid"] : sep \in {":", "="}, k \in 1..(Len(StateObject) - 1) }
    \cup
    { [kind |-> IF json = "invalid" THEN "invalid" ELSE "state",
       html |-> <<StateToken, "a", sep>> \o StateObject \o <<CloseBrace>>, json |-> json] :
        sep \in {":", "="}, json \in {"invalid", "empty", "withProduct"} }

malformed(kind) == kind \in {"cut", "invalid"}

DetailPageInputs ==
    { [op |-> "detailChannels", kind |-> st.kind, html |-> st.html, json |-> st.json,
       blocks |-> blocks] : st \in EmbeddedStates, blocks \in SeqsOf(JsonLdBlocks, MaxBlocks) }

\* The page without its malformed parts.
wellFormedPart(page) ==
    [page EXCEPT !.html = IF malformed(page.kind) THEN <<>> ELSE @,
                 !.blocks = SelectSeq(@, LAMBDA block : block.raw # "invalid")]

\* inStock as the mappers compute it; a JS boolean or undefined is written
\* as a string.  mapSearchHit: hit.orderable ?? (c_qtyInStock > 0), where a
\* missing quantity compares false.
stockOfHit(hit) ==
    IF hit.orderable # "undefined" THEN hit.orderable
    ELSE IF hit.qty # NoNum /\ hit.qty > 0 THEN "true" ELSE "false"

\* extractJsonLdProducts: does the lower-cased availability hold 'instock'.
InStockUrl == "https://schema.org/InStock"

stockOfJsonLd(product) ==
    IF product.availability = InStockUrl THEN "true" ELSE "false"

\* mapDetailProduct: orderable ?? (a finite quantity ? quantity > 0 : undefined)
stockOfState(product) ==
    IF product.orderable # "undefined" THEN product.orderable
    ELSE IF product.qty # NoNum THEN (IF product.qty > 0 THEN "true" ELSE "false")
    ELSE "undefined"

\* normalizeItem: inStock: item.inStock ?? true
normalizeStock(inStock) == IF inStock = "undefined" THEN "true" ELSE inStock

\* The record as emitted: the channel's mapper, then normalizeItem (which
\* shapeItem keeps).
emittedStock(source) ==
    normalizeStock(IF source.channel = "api" THEN stockOfHit(source)
                   ELSE IF source.channel = "jsonLd" THEN stockOfJsonLd(source)
                   ELSE IF source.channel = "state" THEN stockOfState(source)
                   ELSE "true")

StockInputs ==
    { [op |-> "inStock", channel |-> c, orderable |-> o, qty |-> q, availability |-> a] :
        c \in {"api", "jsonLd", "state", "html"}, o \in {"undefined", "true", "false"},
        q \in {NoNum, 0, 3}, a \in {Null, InStockUrl, "https://schema.org/OutOfStock"} }

\* The channel gives no stock signal for the record.
noStockSignal(source) ==
    IF source.channel = "jsonLd" THEN source.availability = Null
    ELSE IF source.channel = "html" THEN TRUE
    ELSE source.orderable = "undefined" /\ source.qty = NoNum

\* { ...base, ...detail }: every key of detail, whatever its value, then the
\* keys only base has.
spread(base, detail) ==
    [k \in DOMAIN base \cup DOMAIN detail |->
        IF k \in DOMAIN detail THEN detail[k] ELSE base[k]]

NoDetail == [detail |-> FALSE]

\* The DETAIL branch's merged record for a detail object or for none.
mergeRecord(base, detail, requestUrl) ==
    LET found == detail # NoDetail
        merged == IF found THEN spread(base, detail) ELSE base
    IN [merged EXCEPT
          !.url = IF base.url # NoUrl THEN base.url
                  ELSE normalizeProductUrl(IF found /\ detail.url # NoUrl THEN detail.url
                                           ELSE requestUrl),
          !.image = IF base.image # Null THEN base.image
                    ELSE IF found THEN detail.image ELSE Null,
          !.images = IF found /\ detail.images # <<>> THEN detail.images ELSE base.images]

TaskUrl == [product |-> TRUE, path |-> "a", query |-> FALSE]

\* The base record a DETAIL task carries (a normalized listing record).
BaseRecords ==
    { [url |-> TaskUrl, image |-> i, title |-> t, price |-> p, colors |-> c, images |-> im,
       features |-> f] :
        i \in {Null, "listing.jpg"}, t \in {Null, "listing title"}, p \in {NoNum, 1},
        c \in {<<>>, <<"red">>}, im \in {<<>>, <<"listing.jpg">>}, f \in {<<>>, <<"listing">>} }

\* The detail object: the first JSON-LD product (which has colors: [] and no
\* features), the product of the embedded state, or none.
DetailRecords ==
    { [url |-> u, image |-> i, title |-> t, price |-> p, colors |-> <<>>, images |-> im] :
        u \in {NoUrl, TaskUrl}, i \in {Null, "detail.jpg"}, t \in {Null, "detail title"},
        p \in {NoNum, 2}, im \in {<<>>, <<"detail.jpg">>} }
    \cup
    { [url |-> TaskUrl, image |-> i, title |-> t, price |-> p, colors |-> c, images |-> im,
       features |-> f] :
        i \in {Null, "detail.jpg"}, t \in {Null, "detail title"}, p \in {NoNum, 2},
        c \in {<<>>, <<"blue">>}, im \in {<<>>, <<"detail.jpg">>}, f \in {<<>>, <<"detail">>} }
    \cup {NoDetail}

MergeInputs ==
    { [op |-> "merge", base |-> b, detail |-> dt] : b \in BaseRecords, dt \in DetailRecords }

\* Page bodies that carry the state after the token: the token, ':' or '='
\* (possibly after a blank), the object, and what follows it.
KeyedObjects ==
    { <<OpenBrace, CloseBrace>>,
      <<OpenBrace, Quote, "a", Quote, ":", Quote, CloseBrace, Quote, CloseBrace>>,
      <<OpenBrace, Quote, "a", Quote, ":", OpenBrace, CloseBrace, CloseBrace>> }

TokenInputs ==
    { [op |-> "extractJsonAfterToken",
       html |-> before \o <<StateToken>> \o gap \o <<sep>> \o gap \o obj \o after,
       tokenIndex |-> Len(before) + 1, sep |-> sep, object |-> obj] :
        before \in {<<>>, <<"a", OpenBrace, CloseBrace>>}, gap \in {<<>>, <<" ">>},
        sep \in {":", "="}, obj \in KeyedObjects,
        after \in {<<>>, <<";", "a", "=", OpenBrace, CloseBrace>>} }

\* buildApiEndpoints: the shopper-search endpoint, then the search endpoint;
\* none without shortCode or organizationId.
buildApiEndpoints(bootstrap) ==
    IF ~bootstrap.shortCode \/ ~bootstrap.organizationId THEN <<>>
    ELSE <<"shopper-search/v1", "search/v1">>

\* What fetchJson returns for an endpoint: null, a body without a hits
\* array, or a body with one (possibly empty).
ApiAnswers == {"null", "noHitsArray", "emptyHits", "hits"}

hasHitsArray(data) == data \in {"emptyHits", "hits"}

\* The for-loop over the endpoints from the i-th on; called lists the
\* endpoints fetched so far.
RECURSIVE tryEndpoints(_, _, _, _)
tryEndpoints(endpoints, answers, i, called) ==
    IF i > Len(endpoints) THEN [called |-> called, data |-> "null"]
    ELSE LET data == answers[i]
         IN IF hasHitsArray(data)
            THEN [called |-> Append(called, endpoints[i]), data |-> data]
            ELSE tryEndpoints(endpoints, answers, i + 1, Append(called, endpoints[i]))

\* tryProductSearchApi.  main_js also returns null, before any call, when
\* the page gave no refine parameters.
tryProductSearchApi(b, bootstrap, answers) ==
    LET endpoints == buildApiEndpoints(bootstrap)
    IN IF endpoints = <<>> THEN [called |-> <<>>, data |-> "null"]
       ELSE IF ~bootstrap.clientId \/ ~bootstrap.siteId THEN [called |-> <<>>, data |-> "null"]
       ELSE IF b = "main_js" /\ ~bootstrap.refine THEN [called |-> <<>>, data |-> "null"]
       ELSE tryEndpoints(endpoints, answers, 1, <<>>)

\* Which of its fields the bootstrap configuration has, and the answer each
\* endpoint would give.
ApiInputs ==
    { [op |-> "tryProductSearchApi", bootstrap |-> bs, answers |-> <<a1, a2>>] :
        bs \in [shortCode : BOOLEAN, organizationId : BOOLEAN, clientId : BOOLEAN,
                siteId : BOOLEAN, refine : BOOLEAN],
        a1 \in ApiAnswers, a2 \in ApiAnswers }

\* A listing URL: its path and its start, sz and page parameters (NoNum: the
\* parameter is absent).
PageUrl(path, start, sz, page) == [path |-> path, start |-> start, sz |-> sz, page |-> page]

\* No href, no next page.
NoPage == PageUrl("", NoNum, NoNum, NoNum)

\* findNextPage (main_js): the href of rel="next"; else the first link
\* labelled Next, where one exists, with or without href; else the current
\* URL with start raised by sz (or the page size) or with page raised by 1.
findNextPage(page, currentUrl, pageSize) ==
    IF page.relNext # NoPage THEN page.relNext
    ELSE IF page.nextLink.present THEN page.nextLink.href
    ELSE IF currentUrl.start # NoNum
    THEN LET size == IF currentUrl.sz # NoNum THEN currentUrl.sz ELSE orElse(pageSize, DEFAULT_PAGE_SIZE)
         IN [currentUrl EXCEPT !.start = currentUrl.start + size, !.sz = size]
    ELSE IF currentUrl.page # NoNum
    THEN [currentUrl EXCEPT !.page = currentUrl.page + 1]
    ELSE NoPage

NextInputs ==
    { [op |-> "findNextPage",
       page |-> [relNext |-> rel, nextLink |-> link],
       currentUrl |-> PageUrl("list", start, sz, pg),
       pageSize |-> size] :
        rel \in {NoPage, PageUrl("rel", NoNum, NoNum, NoNum)},
        link \in {[present |-> FALSE, href |-> NoPage], [present |-> TRUE, href |-> NoPage],
                  [present |-> TRUE, href |-> PageUrl("link", NoNum, NoNum, NoNum)]},
        start \in {NoNum, 0, 20}, sz \in {NoNum, 10}, pg \in {NoNum, 1, 2},
        size \in {NoNum, 20, 40} }

ExtractInputs ==
    ScanInputs \cup DetailPageInputs \cup StockInputs \cup MergeInputs \cup TokenInputs
    \cup ApiInputs \cup NextInputs

InitExtract ==
    /\ PagingParked
    /\ CrawlParked
    /\ build \in Builds
    /\ catalog = {}
    /\ maxConcurrency = 1
    /\ MAX_ITEMS = DEFAULT_MAX_ITEMS
    /\ scrapeDetails = FALSE
    /\ cfg = NoFilters
    /\ itemsSaved = 0
    /\ itemsEnqueued = 0
    /\ seenKeys = {}
    /\ savedProductIds = {}
    /\ detailQueued = {}
    /\ requestQueue = [pending |-> {}, keys |-> {}]
    /\ sink = <<>>
    /\ pc = <<>>
    /\ local = <<>>
    /\ runs = 0
    /\ input \in ExtractInputs
    /\ output = None

extractFrame ==
    <<input, build, catalog, maxConcurrency, MAX_ITEMS, scrapeDetails, cfg, itemsSaved,
      itemsEnqueued, seenKeys, savedProductIds, detailQueued, requestQueue, sink, pc, local,
      runs, pagingVars, crawlVars>>

ScanObject ==
    /\ output = None
    /\ input.op = "extractJsonObject"
    /\ output' = extractJsonObject(input.text, input.startIndex)
    /\ UNCHANGED extractFrame

ReadDetailPage ==
    /\ output = None
    /\ input.op = "detailChannels"
    /\ output' = detailChannels(build, input)
    /\ UNCHANGED extractFrame

EmitStock ==
    /\ output = None
    /\ input.op = "inStock"
    /\ output' = [inStock |-> emittedStock(input)]
    /\ UNCHANGED extractFrame

MergeDetail ==
    /\ output = None
    /\ input.op = "merge"
    /\ output' = mergeRecord(input.base, input.detail, input.base.url)
    /\ UNCHANGED extractFrame

LocateState ==
    /\ output = None
    /\ input.op = "extractJsonAfterToken"
    /\ output' = rawAfterToken(input.html, StateToken)
    /\ UNCHANGED extractFrame

CallSearchApi ==
    /\ output = None
    /\ input.op = "tryProductSearchApi"
    /\ output' = tryProductSearchApi(build, input.bootstrap, input.answers)
    /\ UNCHANGED extractFrame

FindNext ==
    /\ output = None
    /\ input.op = "findNextPage"
    /\ output' = findNextPage(input.page, input.currentUrl, input.pageSize)
    /\ UNCHANGED extractFrame

NextExtract ==
    \/ CallSearchApi
    \/ FindNext
    \/ ScanObject
    \/ ReadDetailPage
    \/ EmitStock
    \/ MergeDetail
    \/ LocateState

SpecExtract == InitExtract /\ [][NextExtract]_vars

\* ------------------------------------------------------------------ the crawl
\* The main flow of part_000 with its proxy circuit: runCrawler, the crawler's
\* page fetches, requestHandler with every await as a suspension point,
\* errorHandler and failedRequestHandler, and the re-run without proxy.
MaxCrawlPages == 2      \* MAX_PAGES of the orchestrated crawl

\* maxRequestRetries: 2
maxRequestRetries == 2

\* [403, 407, 429, 597] and [407, 597] of requestHandler.
BlockedStatuses == {403, 407, 429, 597}
ProxyAuthStatuses == {407, 597}

\* An error message, as the set of the texts isProxyAuthError looks for that
\* it contains: the proxy's failures, and a message with none of the texts
\* (a timeout, a reset connection).
AuthMessages == { {"UPSTREAM407"}, {"Proxy responded with 597", "proxy", "597"} }
OtherMessages == { {} }

isProxyAuthError(message) ==
    \/ "UPSTREAM407" \in message
    \/ "Proxy responded with 597" \in message
    \/ ("proxy" \in message /\ ("407" \in message \/ "597" \in message))

\* A disableProxy that records every failure.
disableProxyAlways(ps, reason) == [ps EXCEPT !.disabled = TRUE, !.reason = reason]

\* disableProxy(reason): the proxy state it leaves.
disableProxy(ps, reason) ==
    IF ps.disabled THEN ps ELSE [ps EXCEPT !.disabled = TRUE, !.reason = reason]

\* A failure that is recorded without opening the circuit.
authFailureRecordedOnly(ps, reason) == [ps EXCEPT !.authFailed = TRUE]

\* proxyState.authFailed = true; disableProxy(reason)
authFailure(ps, reason) == disableProxy([ps EXCEPT !.authFailed = TRUE], reason)

\* The site: two products, which the API and the grid list; the seed
\* listing embeds the first of them as a product-search hit.
SeedUrl == [product |-> FALSE, path |-> "list", query |-> FALSE]
SiteHits ==
    << Raw([product |-> TRUE, path |-> "a", query |-> FALSE], "t", Null, NoNum, NoNum),
       Raw([product |-> TRUE, path |-> "b", query |-> FALSE], "t", Null, NoNum, NoNum) >>

PreloadedHits == SubSeq(SiteHits, 1, 1)

NoBase == Item(NoUrl, Null, Null, NoNum, NoNum, <<>>, <<>>, <<>>)

\* A request of the queue.
Task(url, label, base, retryCount, errorMessages) ==
    [url |-> url, label |-> label, base |-> base, retryCount |-> retryCount,
     errorMessages |-> errorMessages]

NoTask == Task(NoUrl, "none", NoBase, 0, {})

\* { url, userData: { label: 'LIST', pageNum: 1 } }
SeedTask == Task(SeedUrl, "LIST", NoBase, 0, {})

\* The locals of a request handler in flight.
NoCrawlLocal ==
    [task |-> NoTask, proxied |-> FALSE, stage |-> "none", call |-> "none",
     endpoint |-> 0, products |-> <<>>, k |-> 0, filtered |-> <<>>,
     usedApi |-> FALSE, usedPreloaded |-> FALSE,
     total |-> NoNum, offset |-> 0, limit |-> 0, pageNum |-> 1]

\* What a fetch can bring: a response with a status (and, for 200, a body),
\* or an error with a message.  407, 597 and the proxy errors come from the
\* proxy.
FetchStatuses(proxied) == {200, 403, 429} \cup (IF proxied THEN ProxyAuthStatuses ELSE {})
FetchMessages(proxied) == OtherMessages \cup (IF proxied THEN AuthMessages ELSE {})

\* The JSON bodies of the product-search API: no hits, the first hit
\* without a total, or the site's hits with their total.
ApiBodies ==
    { [hits |-> <<>>, total |-> NoNum],
      [hits |-> SubSeq(SiteHits, 1, 1), total |-> NoNum],
      [hits |-> SiteHits, total |-> Len(SiteHits)] }

\* The product elements of a grid page.
GridBodies == { <<>>, SiteHits }

InitCrawl ==
    /\ PureParked
    /\ build = "part_000"
    /\ catalog = { SiteHits[i] : i \in DOMAIN SiteHits }
    /\ maxConcurrency = MaxConcurrency
    /\ MAX_ITEMS \in 1..MaxItemsBound
    /\ scrapeDetails \in BOOLEAN
    /\ cfg = NoFilters
    /\ itemsSaved = 0
    /\ itemsEnqueued = 0
    /\ seenKeys = {}
    /\ savedProductIds = {}
    /\ detailQueued = {}
    /\ requestQueue = [pending |-> {}, keys |-> {}]
    /\ sink = <<>>
    /\ pc = [w \in 1..MaxConcurrency |-> "idle"]
    /\ local = [w \in 1..MaxConcurrency |-> NoCrawlLocal]
    /\ runs = 0
    /\ MAX_PAGES = MaxCrawlPages
    /\ listing = None
    /\ proxyState = NoProxyFailure
    /\ proxyConfiguration \in {"configured", Undefined}
    /\ crawlerInstance = None
    /\ \E credentials \in BOOLEAN, preloaded \in BOOLEAN :
          main = [phase |-> "start", pass |-> 0,
                  configured |-> (proxyConfiguration # Undefined),
                  page |-> [credentials |-> credentials, preloaded |-> preloaded],
                  first |-> None, seeded |-> <<>>, handled |-> {}]
    /\ calls = {}
    /\ observed = [proxyFailure |-> FALSE, rerunFailure |-> FALSE]

\* What a handler step may write, next to the state it names itself.
handlerVars == <<pc, local, calls, main, seenKeys, savedProductIds>>

crawlFrame == <<build, catalog, maxConcurrency, MAX_ITEMS, scrapeDetails, cfg, runs,
                MAX_PAGES, listing, pureVars>>

\* A fetch brought `outcome`: what is known of the fetches afterwards.  A
\* fetch of the re-run fails when it brings anything but a 200 response,
\* and an API or grid fetch also when its body does not list the site's
\* products.
Observe(outcome) ==
    [proxyFailure |->
        \/ observed.proxyFailure
        \/ (outcome.type = "response" /\ outcome.status \in ProxyAuthStatuses)
        \/ (outcome.type = "error" /\ isProxyAuthError(outcome.message)),
     rerunFailure |->
        \/ observed.rerunFailure
        \/ (main.pass = 2 /\ ~(/\ outcome.type = "response"
                               /\ outcome.status = 200
                               /\ "body" \in DOMAIN outcome => outcome.body = SiteHits))]

\* The request handler of worker w returns: the crawler marks the request
\* handled.  `by` names the return: "ceiling" and "queue" for the two
\* guards, "blocked" for the blocked-status branch, "end" otherwise.
EndHandler(w, l, status, by) ==
    /\ pc' = [pc EXCEPT ![w] = "idle"]
    /\ local' = [local EXCEPT ![w] = NoCrawlLocal]
    /\ main' = [main EXCEPT !.handled = @ \cup
                   {[label |-> l.task.label, status |-> status, by |-> by]}]
    /\ UNCHANGED <<calls, seenKeys, savedProductIds>>

\* fetchJson / fetchHtml up to the first await that suspends it, under the
\* proxy state ps.  resolveProxyUrl returns undefined without a proxy
\* configuration or with the circuit open, and gotScraping is called without
\* a proxy; otherwise it awaits proxyConfiguration.newUrl.
BeginFetch(w, l, kind, ps) ==
    /\ IF proxyConfiguration = Undefined \/ ps.disabled
       THEN /\ pc' = [pc EXCEPT ![w] = "got"]
            /\ local' = [local EXCEPT ![w] = [l EXCEPT !.call = kind, !.proxied = FALSE]]
            /\ calls' = calls \cup {[pass |-> main.pass, kind |-> kind,
                                     proxied |-> FALSE, open |-> ps.disabled]}
       ELSE /\ pc' = [pc EXCEPT ![w] = "newUrl"]
            /\ local' = [local EXCEPT ![w] = [l EXCEPT !.call = kind]]
            /\ UNCHANGED calls
    /\ UNCHANGED <<main, seenKeys, savedProductIds>>

\* The grid paging loop: its condition and its body up to fetchHtml.
GridLoop(w, l, ps, target) ==
    IF ~target /\ belowPageCeiling(l.pageNum, MAX_PAGES)
    THEN BeginFetch(w, [l EXCEPT !.stage = "grid", !.offset = l.offset + DEFAULT_PAGE_SIZE,
                                 !.pageNum = l.pageNum + 1], "grid", ps)
    ELSE EndHandler(w, l, 200, "end")

\* After the API section: grid paging when only the preloaded hits were
\* used and the target is not reached.
GridSection(w, l, ps, target) ==
    IF l.usedPreloaded /\ ~l.usedApi /\ ~target
    THEN GridLoop(w, [l EXCEPT !.offset = 0, !.pageNum = 1], ps, target)
    ELSE EndHandler(w, l, 200, "end")

\* The API section: the first call of tryProductSearchApi when the target is
\* not reached and the page carries complete credentials.
ApiSection(w, l, ps, target) ==
    IF ~target /\ main.page.credentials
    THEN BeginFetch(w, [l EXCEPT !.stage = "first", !.endpoint = 1], "api", ps)
    ELSE GridSection(w, l, ps, target)

\* The API paging loop: its condition and its body up to the next call.
ApiLoop(w, l, ps, target) ==
    IF ~target /\ belowPageCeiling(l.pageNum, MAX_PAGES)
       /\ ~endOfResults(l.offset, l.limit, l.total)
    THEN BeginFetch(w, [l EXCEPT !.stage = "next", !.endpoint = 1,
                                 !.offset = l.offset + l.limit,
                                 !.pageNum = l.pageNum + 1], "api", ps)
    ELSE EndHandler(w, l, 200, "end")

\* saveItems(items) up to its await.
CrawlSave(w, l, items, stage) ==
    /\ UNCHANGED <<calls, main>>
    /\ IF items = <<>> \/ itemsSaved >= MAX_ITEMS
       THEN /\ pc' = [pc EXCEPT ![w] = "ret"]
            /\ local' = [local EXCEPT ![w] = [l EXCEPT !.stage = stage]]
            /\ UNCHANGED <<seenKeys, savedProductIds>>
       ELSE LET r == saveLoop(build, cfg, MAX_ITEMS, itemsSaved, items, 1, <<>>,
                              seenKeys, savedProductIds)
            IN /\ seenKeys' = r.seenKeys
               /\ savedProductIds' = r.savedProductIds
               /\ pc' = [pc EXCEPT ![w] = IF r.filtered = <<>> THEN "ret" ELSE "push"]
               /\ local' = [local EXCEPT ![w] = [l EXCEPT !.stage = stage,
                                                          !.filtered = r.filtered]]

\* enqueueOrSaveDetails(products) up to its first await; the handler goes on
\* at `stage` when it returns.
CrawlEnqueueOrSave(w, l, products, stage) ==
    IF ~scrapeDetails \/ products = <<>>
    THEN CrawlSave(w, l, products, stage)
    ELSE LET n == nextToQueue(products, 1, itemsEnqueued, detailQueued)
         IN /\ pc' = [pc EXCEPT ![w] = IF n = 0 THEN "ret" ELSE "add"]
            /\ local' = [local EXCEPT ![w] = [l EXCEPT !.stage = stage,
                                                       !.products = products, !.k = n]]
            /\ UNCHANGED <<calls, main, seenKeys, savedProductIds>>

\* A ceiling guard that lets one more task through.
ceilingGuardLate(saved, max) == saved > max

\* if (itemsSaved >= MAX_ITEMS) at the head of requestHandler, errorHandler
\* and failedRequestHandler.
ceilingGuard(saved, max) == saved >= max

\* runCrawler: the crawler is built with the proxy configuration of the
\* moment, the seed URL is added to the request queue, the crawl starts.
RunCrawler ==
    /\ main.phase \in {"start", "rerun"}
    /\ crawlerInstance' = [proxyConfiguration |-> proxyConfiguration, aborted |-> FALSE]
    /\ requestQueue' =
          IF SeedUrl \in requestQueue.keys THEN requestQueue
          ELSE [pending |-> requestQueue.pending \cup {SeedTask},
                keys |-> requestQueue.keys \cup {SeedUrl}]
    /\ main' = [main EXCEPT !.phase = "crawl", !.pass = @ + 1,
                            !.seeded = Append(@, requestQueue')]
    /\ UNCHANGED <<crawlFrame, itemsSaved, itemsEnqueued, seenKeys, savedProductIds,
                   detailQueued, sink, pc, local, proxyState, proxyConfiguration,
                   calls, observed>>

\* The crawler takes a request from the queue and fetches its page, through
\* the proxy configuration it was built with.
CrawlerFetch(w) ==
    /\ main.phase = "crawl"
    /\ ~crawlerInstance.aborted
    /\ pc[w] = "idle"
    /\ \E task \in requestQueue.pending :
          LET proxied == crawlerInstance.proxyConfiguration # Undefined
          IN /\ requestQueue' = [requestQueue EXCEPT !.pending = @ \ {task}]
             /\ pc' = [pc EXCEPT ![w] = "nav"]
             /\ local' = [local EXCEPT ![w] =
                            [NoCrawlLocal EXCEPT !.task = task, !.proxied = proxied]]
             /\ calls' = calls \cup {[pass |-> main.pass, kind |-> "page",
                                      proxied |-> proxied, open |-> proxyState.disabled]}
    /\ UNCHANGED <<crawlFrame, itemsSaved, itemsEnqueued, seenKeys, savedProductIds,
                   detailQueued, sink, proxyState, proxyConfiguration, crawlerInstance,
                   main, observed>>

\* A retry that is not counted.
retriedUncounted(retryCount) == retryCount

\* The crawler counts the retries of a request.
retried(retryCount) == retryCount + 1

\* The page fetch fails with an error: errorHandler and a retry while the
\* request has retries left, failedRequestHandler otherwise.  Both handlers
\* return at once when the item ceiling is reached, else they test the
\* message together with the request's earlier error messages.
CrawlerError(w) ==
    /\ pc[w] = "nav"
    /\ \E message \in FetchMessages(local[w].proxied) :
          LET task == local[w].task
              combined == message \cup task.errorMessages
          IN /\ observed' = Observe([type |-> "error", message |-> message])
             /\ proxyState' =
                   IF ~ceilingGuard(itemsSaved, MAX_ITEMS) /\ isProxyAuthError(combined)
                   THEN authFailure(proxyState, "Proxy authentication failed")
                   ELSE proxyState
             /\ requestQueue' =
                   IF task.retryCount < maxRequestRetries
                   THEN [requestQueue EXCEPT !.pending = @ \cup
                           {[task EXCEPT !.retryCount = retried(task.retryCount),
                                         !.errorMessages = combined]}]
                   ELSE requestQueue
    /\ pc' = [pc EXCEPT ![w] = "idle"]
    /\ local' = [local EXCEPT ![w] = NoCrawlLocal]
    /\ UNCHANGED <<crawlFrame, itemsSaved, itemsEnqueued, seenKeys, savedProductIds,
                   detailQueued, sink, proxyConfiguration, crawlerInstance, main, calls>>

\* The record a DETAIL handler saves: the page embeds the product's state,
\* which is merged onto the carried base record.
mergedOf(task) ==
    LET raws == { r \in catalog : normalizeProductUrl(r.href) = task.url }
    IN IF raws = {} THEN task.base
       ELSE mergeDetail(task.base, mapDetailProduct(CHOOSE r \in raws : TRUE), task.url)

\* The page fetch brings a response and requestHandler runs up to its first
\* await: the ceiling guards, the blocked-status branch, the DETAIL branch,
\* or the listing branch with the preloaded hits and the API section.
RequestHandler(w) ==
    /\ pc[w] = "nav"
    /\ \E status \in FetchStatuses(local[w].proxied) :
          LET l == local[w]
          IN /\ observed' = Observe([type |-> "response", status |-> status])
             /\ IF ceilingGuard(itemsSaved, MAX_ITEMS)
                THEN /\ crawlerInstance' = [crawlerInstance EXCEPT !.aborted = TRUE]
                     /\ EndHandler(w, l, status, "ceiling")
                     /\ UNCHANGED proxyState
                ELSE IF scrapeDetails /\ itemsEnqueued >= MAX_ITEMS /\ l.task.label # "DETAIL"
                THEN /\ EndHandler(w, l, status, "queue")
                     /\ UNCHANGED <<proxyState, crawlerInstance>>
                ELSE IF status \in BlockedStatuses
                THEN /\ proxyState' =
                           IF status \in ProxyAuthStatuses
                           THEN authFailure(proxyState, "Proxy authentication failed (status)")
                           ELSE proxyState
                     /\ EndHandler(w, l, status, "blocked")
                     /\ UNCHANGED crawlerInstance
                ELSE IF l.task.label = "DETAIL"
                THEN /\ CrawlSave(w, l, <<mergedOf(l.task)>>, "detail")
                     /\ UNCHANGED <<proxyState, crawlerInstance>>
                ELSE /\ IF main.page.preloaded
                        THEN CrawlEnqueueOrSave(w, [l EXCEPT !.usedPreloaded = TRUE],
                                                mapEach(build, "api", PreloadedHits, 1), "pre")
                        ELSE ApiSection(w, l, proxyState, hasReachedTarget)
                     /\ UNCHANGED <<proxyState, crawlerInstance>>
    /\ UNCHANGED <<crawlFrame, itemsSaved, itemsEnqueued, detailQueued, requestQueue,
                   sink, proxyConfiguration>>

\* await Actor.pushData(filtered) resolves: the records are in the dataset,
\* the counter is raised, stopCrawler aborts the crawler's pool when the
\* ceiling is reached, saveItems returns.
SaveResolved(w) ==
    /\ pc[w] = "push"
    /\ sink' = sink \o local[w].filtered
    /\ itemsSaved' = itemsSaved + Len(local[w].filtered)
    /\ crawlerInstance' =
          IF ceilingGuard(itemsSaved', MAX_ITEMS)
          THEN [crawlerInstance EXCEPT !.aborted = TRUE] ELSE crawlerInstance
    /\ pc' = [pc EXCEPT ![w] = "ret"]
    /\ local' = [local EXCEPT ![w].filtered = <<>>]
    /\ UNCHANGED <<crawlFrame, itemsEnqueued, seenKeys, savedProductIds, detailQueued,
                   requestQueue, proxyState, proxyConfiguration, main, calls, observed>>

\* await requestQueue.addRequest(...) resolves: the DETAIL request is in the
\* queue unless the queue knows its url, the url is marked queued, the
\* counter is raised, the loop goes on to its next await or ends.
AddResolved(w) ==
    /\ pc[w] = "add"
    /\ LET l == local[w]
           product == l.products[l.k]
           url == detailUrlOf(product)
           n == nextToQueue(l.products, l.k + 1, itemsEnqueued + 1, detailQueued \cup {url})
       IN /\ requestQueue' =
                IF url \in requestQueue.keys THEN requestQueue
                ELSE [pending |-> requestQueue.pending \cup
                                     {Task(url, "DETAIL", baseOf(product), 0, {})},
                      keys |-> requestQueue.keys \cup {url}]
          /\ detailQueued' = detailQueued \cup {url}
          /\ itemsEnqueued' = itemsEnqueued + 1
          /\ pc' = [pc EXCEPT ![w] = IF n = 0 THEN "ret" ELSE "add"]
          /\ local' = [local EXCEPT ![w].k = n]
    /\ UNCHANGED <<crawlFrame, itemsSaved, seenKeys, savedProductIds, sink, proxyState,
                   proxyConfiguration, crawlerInstance, main, calls, observed>>

\* await enqueueOrSaveDetails(...) or await saveItems(...) returns to
\* requestHandler, which runs on to its next await or to its end.
Returned(w) ==
    /\ pc[w] = "ret"
    /\ LET l == local[w]
       IN IF l.stage = "pre" THEN ApiSection(w, l, proxyState, hasReachedTarget)
          ELSE IF l.stage = "api" THEN ApiLoop(w, l, proxyState, hasReachedTarget)
          ELSE IF l.stage = "grid" THEN GridLoop(w, l, proxyState, hasReachedTarget)
          ELSE EndHandler(w, l, 200, "end")
    /\ UNCHANGED <<crawlFrame, itemsSaved, itemsEnqueued, detailQueued, requestQueue,
                   sink, proxyState, proxyConfiguration, crawlerInstance, observed>>

\* await proxyConfiguration.newUrl(...) resolves: gotScraping is called with
\* the proxy URL.
ProxyUrlResolved(w) ==
    /\ pc[w] = "newUrl"
    /\ pc' = [pc EXCEPT ![w] = "got"]
    /\ local' = [local EXCEPT ![w].proxied = TRUE]
    /\ calls' = calls \cup {[pass |-> main.pass, kind |-> local[w].call,
                             proxied |-> TRUE, open |-> proxyState.disabled]}
    /\ UNCHANGED <<crawlFrame, itemsSaved, itemsEnqueued, seenKeys, savedProductIds,
                   detailQueued, requestQueue, sink, proxyState, proxyConfiguration,
                   crawlerInstance, main, observed>>

\* await proxyConfiguration.newUrl(...) throws: resolveProxyUrl opens the
\* circuit and returns undefined, gotScraping is called without a proxy.
ProxyUrlFailed(w) ==
    /\ pc[w] = "newUrl"
    /\ proxyState' = disableProxy(proxyState, "Proxy configuration error")
    /\ pc' = [pc EXCEPT ![w] = "got"]
    /\ local' = [local EXCEPT ![w].proxied = FALSE]
    /\ calls' = calls \cup {[pass |-> main.pass, kind |-> local[w].call,
                             proxied |-> FALSE, open |-> TRUE]}
    /\ UNCHANGED <<crawlFrame, itemsSaved, itemsEnqueued, seenKeys, savedProductIds,
                   detailQueued, requestQueue, sink, proxyConfiguration,
                   crawlerInstance, main, observed>>

\* What gotScraping can bring for a call of the given kind.
FetchOutcomes(kind, proxied) ==
    { [type |-> "response", status |-> s, body |-> <<>>, total |-> NoNum, data |-> FALSE] :
        s \in FetchStatuses(proxied) }
    \cup { [type |-> "response", status |-> 200, body |-> b.hits, total |-> b.total,
            data |-> TRUE] : b \in IF kind = "api" THEN ApiBodies ELSE {} }
    \cup { [type |-> "response", status |-> 200, body |-> b, total |-> NoNum,
            data |-> TRUE] : b \in IF kind = "grid" THEN GridBodies ELSE {} }
    \cup { [type |-> "error", message |-> m, body |-> <<>>, total |-> NoNum, data |-> FALSE] :
             m \in FetchMessages(proxied) }

\* await gotScraping(...) returns or throws, and the handler runs on to its
\* next await.  fetchJson and fetchHtml return the body of a 2xx response;
\* any other response gives null; an error gives null and, when its message
\* is a proxy authentication failure, opens the circuit.
\* tryProductSearchApi goes on to its second endpoint when the first gives
\* no data.
FetchResolved(w) ==
    /\ pc[w] = "got"
    /\ \E outcome \in FetchOutcomes(local[w].call, local[w].proxied) :
          LET l == local[w]
              ps == IF outcome.type = "error" /\ isProxyAuthError(outcome.message)
                    THEN authFailure(proxyState, "Proxy authentication failed")
                    ELSE proxyState
              target == hasReachedTarget
          IN /\ observed' = Observe(outcome)
             /\ proxyState' = ps
             /\ IF l.call = "api"
                THEN IF ~outcome.data /\ l.endpoint = 1
                     THEN BeginFetch(w, [l EXCEPT !.endpoint = 2], "api", ps)
                     ELSE IF outcome.body = <<>>
                     THEN IF l.stage = "first" THEN GridSection(w, l, ps, target)
                          ELSE EndHandler(w, l, 200, "end")
                     ELSE CrawlEnqueueOrSave(w,
                            IF l.stage = "first"
                            THEN [l EXCEPT !.usedApi = TRUE, !.total = outcome.total,
                                           !.offset = 0, !.limit = DEFAULT_PAGE_SIZE,
                                           !.pageNum = 1]
                            ELSE l,
                            mapEach(build, "api", outcome.body, 1), "api")
                ELSE LET gridProducts == extractProductsFromHtml(build, outcome.body)
                     IN IF gridProducts = <<>> THEN EndHandler(w, l, 200, "end")
                        ELSE CrawlEnqueueOrSave(w, l, gridProducts, "grid")
    /\ UNCHANGED <<crawlFrame, itemsSaved, itemsEnqueued, detailQueued, requestQueue,
                   sink, proxyConfiguration, crawlerInstance>>

\* crawlerInstance.run() resolves: no handler is in flight and the queue is
\* drained or the pool was aborted.
CrawlerEnds ==
    /\ main.phase = "crawl"
    /\ \A w \in Workers : pc[w] = "idle"
    /\ requestQueue.pending = {} \/ crawlerInstance.aborted
    /\ main' = IF main.pass = 1
               THEN [main EXCEPT !.phase = "after",
                                 !.first = [disabled |-> proxyState.disabled,
                                            authFailed |-> proxyState.authFailed,
                                            itemsSaved |-> itemsSaved]]
               ELSE [main EXCEPT !.phase = "done"]
    /\ UNCHANGED <<crawlFrame, itemsSaved, itemsEnqueued, seenKeys, savedProductIds,
                   detailQueued, requestQueue, sink, pc, local, proxyState,
                   proxyConfiguration, crawlerInstance, calls, observed>>

\* if (proxyConfiguration && proxyState.authFailed) { ... await runCrawler() }
AfterFirstCrawl ==
    /\ main.phase = "after"
    /\ IF proxyConfiguration # Undefined /\ proxyState.authFailed
       THEN /\ proxyState' = [proxyState EXCEPT !.authFailed = FALSE, !.disabled = TRUE]
            /\ proxyConfiguration' = Undefined
            /\ requestQueue' = [pending |-> {}, keys |-> {}]
            /\ main' = [main EXCEPT !.phase = "rerun"]
       ELSE /\ main' = [main EXCEPT !.phase = "done"]
            /\ UNCHANGED <<proxyState, proxyConfiguration, requestQueue>>
    /\ UNCHANGED <<crawlFrame, itemsSaved, itemsEnqueued, seenKeys, savedProductIds,
                   detailQueued, sink, pc, local, crawlerInstance, calls, observed>>

NextCrawl ==
    \/ RunCrawler
    \/ CrawlerEnds
    \/ AfterFirstCrawl
    \/ \E w \in Workers :
          \/ CrawlerFetch(w)
          \/ CrawlerError(w)
          \/ RequestHandler(w)
          \/ SaveResolved(w)
          \/ AddResolved(w)
          \/ Returned(w)
          \/ ProxyUrlResolved(w)
          \/ ProxyUrlFailed(w)
          \/ FetchResolved(w)

\* The orchestrated run.
SpecCrawl == InitCrawl /\ [][NextCrawl]_vars

\* The same run under a scheduler that lets every enabled step happen:
\* pending awaits resolve and the crawler keeps taking requests.
SpecCrawlFair == SpecCrawl /\ WF_vars(NextCrawl)

\* C10: an API-paged listing task that starts at offset 0 with reported
\* total T and positive limit L requests exactly the offsets 0, L, 2L, ...
\* in this order, issues no request after an offset o with o + L >= T,
\* requests no offset >= T, and when it stops for the end of the results
\* its last offset o has o + L >= T.
PagedFromZero ==
    /\ listing.usedApi
    /\ listing.startOffset = 0 /\ listing.firstOffset = 0
    /\ listing.total # NoNum
    /\ listing.limit > 0

C10_PaginationMonotonic ==
    PagedFromZero =>
        LET r == listing.requested
        IN /\ \A i \in DOMAIN r : r[i] = (i - 1) * listing.limit
           /\ \A i \in DOMAIN r : r[i] < listing.total
           /\ \A i \in DOMAIN r : i < Len(r) => r[i] + listing.limit < listing.total
           /\ listing.stop = "total" => r[Len(r)] + listing.limit >= listing.total

\* Total 55 and limit 20: the offsets 0, 20, 40 were requested and paging
\* stopped for the end of the results.
C10_Witness ==
    /\ PagedFromZero
    /\ listing.total = 55 /\ listing.limit = 20
    /\ listing.requested = <<0, 20, 40>>
    /\ listing.pc = "done" /\ listing.stop = "total"

\* C11: a listing task processes at most MAX_PAGES pages: its page number is
\* its first page number plus the continuation fetches it issued (API or
\* grid), the page number never passes MAX_PAGES, and the pages processed
\* since the seed task, first pages and continuation pages together, never
\* exceed MAX_PAGES - whatever total, limit and offset the API reports.
C11_PageCeiling ==
    listing # None =>
        /\ listing.pageNum = listing.startPage + listing.fetches
        /\ listing.pageNum <= MAX_PAGES
        /\ 1 + listing.fetches <= MAX_PAGES
        /\ listing.pages <= MAX_PAGES

\* With MAX_PAGES = 3 an API-paged task whose responses report limit 0 and
\* no total has fetched two continuation pages and stopped for the page
\* ceiling.
C11_Witness ==
    /\ listing # None /\ listing.usedApi
    /\ MAX_PAGES = 3
    /\ listing.limit = 0 /\ listing.total = NoNum
    /\ listing.fetches = 2
    /\ listing.pc = "done" /\ listing.stop = "pages"

\* A record whose only color matches the filter in another case has
\* passed, and the filter text is a proper part of that color.
C9_Witness ==
    /\ input \in ColorRuns
    /\ input.cfg.color = <<"r">>
    /\ input.item.colors = << <<"e", "R">> >>
    /\ output # None /\ output.passes

\* ------------------------------------------------------------------ claims
\* The canonical form of a URL: a product-page URL without its query string
\* and fragment.
Canonical(url) ==
    IF url # NoUrl /\ url.product /\ url.query
    THEN [product |-> TRUE, path |-> url.path, query |-> FALSE]
    ELSE url

Pushing(w) == pc[w] = "push"

\* C1: with one handler at a time, the records pushed and itemsSaved never
\* exceed MAX_ITEMS, and a batch waiting to be pushed never carries more
\* records than fit under the ceiling (the batch that reaches the ceiling
\* brings the total to exactly MAX_ITEMS).
C1_CeilingRespect ==
    /\ Len(sink) <= MAX_ITEMS
    /\ itemsSaved <= MAX_ITEMS
    /\ \A w \in Workers : Pushing(w) => itemsSaved + Len(local[w].filtered) <= MAX_ITEMS

\* A batch of two was cut after its first record because that record took
\* the last slot, although the second one would have been accepted.
C1_Witness ==
    \E w \in Workers :
        /\ Pushing(w)
        /\ Len(local[w].items) = 2
        /\ Len(local[w].filtered) = 1
        /\ itemsSaved + 1 = MAX_ITEMS
        /\ ~skipsItem(build, cfg, shapeItem(build, local[w].items[2]), seenKeys, savedProductIds)

\* C2: with concurrent handlers, itemsSaved and the number of records pushed
\* never exceed MAX_ITEMS.
C2_ConcurrentCeiling ==
    /\ Len(sink) <= MAX_ITEMS
    /\ itemsSaved <= MAX_ITEMS

\* C3: no two records pushed to the sink have the same canonical URL.
C3_UniqueCanonicalUrl ==
    \A i, j \in DOMAIN sink :
        (i # j /\ sink[i].url # NoUrl) => Canonical(sink[i].url) # Canonical(sink[j].url)

\* C4: the sink never holds a record twice, once with and once without a
\* product id, under the same URL.
C4_IdempotentIdentity ==
    \A i, j \in DOMAIN sink :
        (/\ i # j
         /\ sink[i].url # NoUrl
         /\ sink[i].url = sink[j].url
         /\ sink[i].title = sink[j].title
         /\ sink[i].productId # Null)
        => sink[j].productId # Null

\* C5: the sink never holds two records with the same product id under
\* different URLs.
C5_ProductIdPrecedence ==
    \A i, j \in DOMAIN sink :
        (i # j /\ sink[i].productId # Null /\ sink[i].productId = sink[j].productId)
        => sink[i].url = sink[j].url

\* C6: every record pushed to the sink has a url and a title.
C6_UrlAndTitle ==
    \A i \in DOMAIN sink : sink[i].url # NoUrl /\ sink[i].title # Null

\* C7: every record pushed to the sink that has an originalPrice has it
\* strictly greater than its price.
C7_OriginalPrice ==
    \A i \in DOMAIN sink :
        sink[i].originalPrice # NoNum => sink[i].originalPrice > sink[i].price

\* C12: every network call issued while the proxy circuit is open - page
\* fetch of the crawler, API fetch, grid fetch - is issued without a proxy.
C12_NoProxyAfterOpen ==
    \A c \in calls : c.open => ~c.proxied

\* C13: once any fetch has brought a response with status 407 or 597, or an
\* error whose message is a proxy authentication failure, the proxy circuit
\* is open.
C13_OpensOnProxyFailure ==
    observed.proxyFailure => proxyState.disabled

\* C14: the proxy circuit is a one-way latch: once proxyState.disabled is
\* true no step sets it back to false, the re-run block included, and no
\* step changes the recorded reason.
C14_OneWayLatch ==
    [][proxyState.disabled =>
          (proxyState'.disabled /\ proxyState'.reason = proxyState.reason)]_vars

\* The re-run is under way or over, and the reason is still that of the
\* configuration error that opened the circuit before the authentication
\* failure.
C14_Witness ==
    /\ main # None /\ main.pass = 2
    /\ proxyState.disabled
    /\ proxyState.reason = "Proxy configuration error"

\* C15: once the first crawl is over, a second crawl is started exactly when
\* a proxy was configured and the circuit was open at the end of the first;
\* there are at most two crawls, the second starts from a queue that holds
\* what the first started from, and no call of the second uses a proxy.
C15_ReRunWhenCircuitOpen ==
    /\ main.pass <= 2
    /\ (main.phase \in {"rerun", "done"} \/ main.pass = 2) =>
          ((main.phase = "rerun" \/ main.pass = 2)
             <=> (main.configured /\ main.first.disabled))
    /\ Len(main.seeded) = 2 => main.seeded[2] = main.seeded[1]
    /\ \A c \in calls : c.pass = 2 => ~c.proxied

\* C16: when the first crawl ended with proxy authentication failed and
\* fewer than MAX_ITEMS records saved, and every fetch of the re-run brought
\* a 200 response with the site's products, then at the end of the re-run
\* the ceiling is reached or every product of the seed listing is saved.
C16_ReRunSavesTheRest ==
    (/\ main.phase = "done" /\ main.pass = 2
     /\ main.page.preloaded
     /\ main.first.authFailed
     /\ main.first.itemsSaved < MAX_ITEMS
     /\ ~observed.rerunFailure)
    => \/ itemsSaved >= MAX_ITEMS
       \/ \A i \in DOMAIN SiteHits :
             \E j \in DOMAIN sink : sink[j].url = normalizeProductUrl(SiteHits[i].href)

C19_StopAfterCeiling ==
    [][\A w \in DOMAIN pc :
          (pc[w] = "nav" /\ pc'[w] # "nav" /\ itemsSaved >= MAX_ITEMS)
          => /\ pc'[w] = "idle"
             /\ UNCHANGED <<sink, itemsSaved, itemsEnqueued, seenKeys, savedProductIds,
                            detailQueued, calls>>
             /\ requestQueue'.keys = requestQueue.keys]_vars

\* The ceiling is reached and a handler that started afterwards has
\* returned at the ceiling guard.
C19_Witness ==
    /\ main # None /\ itemsSaved >= MAX_ITEMS
    /\ \E h \in main.handled : h.by = "ceiling"

\* C20: a first listing page without complete credentials, or whose API call
\* failed, hands no product on only when its embedded state, its JSON-LD
\* markup and its HTML tiles are all empty.
C20_LowerChannels ==
    (/\ output # None
     /\ ~input.credentials \/ input.api = -1
     /\ output.handed = 0)
    => (input.preloaded = 0 /\ input.jsonLd = 0 /\ input.tiles = 0)

\* C21: a listing page whose channels hand no product on ends there: the
\* handler does not go to the sitemap.
C21_NoSitemapFallback ==
    (output # None /\ output.handed = 0)
    => \A i \in DOMAIN output.tried : output.tried[i] # "sitemap"

\* C25: started at an opening brace, extractJsonObject returns the text up to
\* and including the matching closing brace, whatever braces, escaped quotes
\* and escaped backslashes the string literals hold, and null when the text
\* ends before that brace.
C25_MatchingBrace ==
    (output # None /\ input.op = "extractJsonObject")
    => output = IF input.whole THEN [found |-> TRUE, text |-> input.object] ELSE NoMatch

\* A string literal holding "}{" was scanned through.
C25_Witness ==
    /\ output # None
    /\ input.op = "extractJsonObject"
    /\ input.whole
    /\ \E i \in 1..(Len(input.object) - 1) :
          input.object[i] = CloseBrace /\ input.object[i + 1] = OpenBrace
    /\ output = [found |-> TRUE, text |-> input.object]

\* C22: an embedded state or a structured-data block that does not parse
\* yields nothing and raises nothing: the page is read as if that part were
\* not there, the other blocks and the lower channels included.
C22_MalformedYieldsNothing ==
    (output # None /\ input.op = "detailChannels")
    => /\ ~output.thrown
       /\ output = detailChannels(build, wellFormedPart(input))

\* A page whose state does not parse and whose first block does not parse
\* gave the product of its second block.
C22_Witness ==
    /\ output # None
    /\ input.op = "detailChannels"
    /\ build = "part_000"
    /\ malformed(input.kind)
    /\ Len(input.blocks) >= 2
    /\ input.blocks[1].raw = "invalid"
    /\ ~output.thrown
    /\ output.detail = "p1"

C24_OwnOffsets ==
    LET r == listing.requested
        g == listing.gridRequested
    IN /\ \A i \in DOMAIN r :
            IF i = 1 THEN r[i] = listing.startOffset
            ELSE /\ listing.usedApi
                 /\ r[i] = listing.firstOffset + (i - 1) * listing.limit
                 /\ listing.total # NoNum => r[i] < listing.total
       /\ \A i \in DOMAIN g : g[i] = listing.startOffset + i * listing.pageSize

\* A task was cut short by the shared ceiling: it requested the offsets 0
\* and 20 and stopped for the target although total 55 and the page ceiling
\* left offset 40 to request.
C24_Witness ==
    /\ listing.usedApi
    /\ listing.requested = <<0, 20>>
    /\ listing.total = 55 /\ listing.limit = 20
    /\ belowPageCeiling(listing.pageNum, MAX_PAGES)
    /\ listing.pc = "done" /\ listing.stop = "target"

\* C27: the paging strategy of a listing task never reverts: the grid loop
\* runs only in a task that used the embedded hits and never used the API,
\* and a task that used the API stays an API task, enters no grid loop and
\* queues no next page, also after one of its API pages failed.
C27_StrategyNeverReverts ==
    [][/\ listing'.pc \in {"grid", "gridfetch"}
          => (listing'.usedPreloaded /\ ~listing'.usedApi)
       /\ listing.usedApi
          => /\ listing'.usedApi
             /\ listing'.pc \notin {"grid", "gridfetch", "queued"}
             /\ listing'.startPage = listing.startPage
             /\ listing'.gridRequested = <<>>]_vars

\* An API task of a page that embeds hits and allows the grid has ended on
\* a failed API page, below the ceilings.
C27_Witness ==
    /\ listing.usedApi
    /\ listing.failed
    /\ listing.preloaded > 0 /\ listing.gridable
    /\ listing.pc = "done"
    /\ ~hasReachedTarget
    /\ belowPageCeiling(listing.pageNum, MAX_PAGES)

\* C28: in detail mode at most MAX_ITEMS DETAIL tasks are queued and no
\* product url is queued twice, also when handlers interleave at the await
\* of the queue insertion: the counter stays within the ceiling and every
\* insertion it counts is one more url in the queue.
C28_DetailTasksBounded ==
    scrapeDetails
    => /\ itemsEnqueued <= MAX_ITEMS
       /\ Cardinality(requestQueue.keys) <= MAX_ITEMS
       /\ itemsEnqueued = Cardinality(requestQueue.keys)

\* C26: a record whose channel gives no stock signal is emitted as in stock.
C26_InStockByDefault ==
    (output # None /\ input.op = "inStock" /\ noStockSignal(input))
    => output.inStock = "true"

\* C29: in the DETAIL merge a null value of the detail object leaves the
\* scalar field of the listing record as it was.
C29_NullKeepsListingValue ==
    (output # None /\ input.op = "merge" /\ input.detail # NoDetail)
    => /\ input.detail.title = Null => output.title = input.base.title
       /\ input.detail.price = NoNum => output.price = input.base.price
       /\ input.detail.image = Null => output.image = input.base.image

\* C30: in the DETAIL merge every array field is the detail's array when
\* that is not empty and the listing record's array otherwise.
C30_ArrayReplacedWhenNonEmpty ==
    (output # None /\ input.op = "merge" /\ input.detail # NoDetail)
    => /\ output.images = IF input.detail.images # <<>> THEN input.detail.images
                          ELSE input.base.images
       /\ output.colors = IF input.detail.colors # <<>> THEN input.detail.colors
                          ELSE input.base.colors
       /\ output.features = IF "features" \in DOMAIN input.detail /\ input.detail.features # <<>>
                            THEN input.detail.features
                            ELSE input.base.features

\* C31: the object handed to the parser is the one that opens at the first
\* '{' after the state token, whether ':' or '=' follows the token.
C31_FirstObjectAfterToken ==
    (output # None /\ input.op = "extractJsonAfterToken")
    => /\ output.startIndex = indexOf(input.html, OpenBrace, input.tokenIndex + 1)
       /\ output.raw = [found |-> TRUE, text |-> input.object]

\* C32: without shortCode, organizationId, clientId or siteId
\* tryProductSearchApi returns null and calls nothing; otherwise it calls the
\* endpoints in their order up to the first whose response has a hits array
\* and returns that response, or null after all of them.
C32_EndpointsInOrder ==
    (output # None /\ input.op = "tryProductSearchApi")
    => LET bs == input.bootstrap
           a == input.answers
       IN IF ~(bs.shortCode /\ bs.organizationId /\ bs.clientId /\ bs.siteId)
          THEN output = [called |-> <<>>, data |-> "null"]
          ELSE IF hasHitsArray(a[1])
          THEN output = [called |-> <<"shopper-search/v1">>, data |-> a[1]]
          ELSE /\ output.called = <<"shopper-search/v1", "search/v1">>
               /\ output.data = IF hasHitsArray(a[2]) THEN a[2] ELSE "null"

\* C35: the next page is the URL of the page's next relation (rel="next",
\* else a link labelled Next) when it gives one; otherwise the current URL
\* with start raised by the page size when it has a start parameter, else
\* with page raised by 1 when it has a page parameter; otherwise none.
C35_NextPageDerivation ==
    (output # None /\ input.op = "findNextPage")
    => LET url == input.currentUrl
           explicit == IF input.page.relNext # NoPage THEN input.page.relNext
                       ELSE input.page.nextLink.href
           size == IF url.sz # NoNum THEN url.sz
                   ELSE IF input.pageSize # NoNum THEN input.pageSize
                   ELSE DEFAULT_PAGE_SIZE
       IN IF explicit # NoPage THEN output = explicit
          ELSE IF url.start # NoNum
          THEN output.path = url.path /\ output.start = url.start + size /\ output.page = url.page
          ELSE IF url.page # NoNum
          THEN output = [url EXCEPT !.page = url.page + 1]
          ELSE output = NoPage

\* C33: grid paging requests the start values startOffset + k * pageSize for
\* k = 1, 2, ... in this order; a start value is requested only while the
\* item ceiling and the page ceiling are not reached and only when the grid
\* fetch before it, if any, brought products.
C33_GridPaging ==
    [][LET g == listing.gridRequested
       IN listing'.gridRequested # g
          => \/ listing'.gridRequested = <<>>
             \/ /\ listing.pc = "grid"
                /\ listing'.gridRequested =
                      Append(g, listing.startOffset + (Len(g) + 1) * listing.pageSize)
                /\ ~hasReachedTarget
                /\ belowPageCeiling(listing.pageNum, MAX_PAGES)
                /\ g # <<>> => listing.lastGrid > 0]_vars

\* From start offset 20 the grid pages 40 and 60 were requested and the
\* second one had no products, which ended the paging.
C33_Witness ==
    /\ listing.gridRequested = <<40, 60>>
    /\ listing.lastGrid = 0
    /\ listing.pc = "done" /\ listing.stop = "gridempty"
    /\ ~hasReachedTarget
    /\ belowPageCeiling(listing.pageNum, MAX_PAGES)

\* C34: in detail mode, once itemsEnqueued has reached MAX_ITEMS, a listing
\* task that starts returns at once, no paging loop issues a further fetch
\* and no further listing page is queued.
C34_NoListingAfterQueueFull ==
    [][(scrapeDetails /\ itemsEnqueued >= MAX_ITEMS /\ listing' # listing)
          => /\ listing.pc = "queued"
                => listing'.pc = "done" /\ listing'.stop = "guard"
             /\ listing'.pc \notin {"first", "fetch", "gridfetch", "queued"}]_vars

\* Two URLs of product pages that differ at most in query string and
\* fragment.
differOnlyInQuery(u, v) == u.product /\ v.product /\ u.path = v.path

\* C36: product-page URLs that differ only in query string or fragment have
\* the same canonical URL, canonicalising a canonical URL changes nothing,
\* and of two candidates with such URLs at most one is pushed to the sink.
C36_QueryVariantsAreOneProduct ==
    /\ \A u, v \in Hrefs :
          differOnlyInQuery(u, v) => normalizeProductUrl(u) = normalizeProductUrl(v)
    /\ \A u \in Hrefs : normalizeProductUrl(normalizeProductUrl(u)) = normalizeProductUrl(u)
    /\ \A i, j \in DOMAIN sink :
          i # j => ~differOnlyInQuery(sink[i].url, sink[j].url)

\* The batches that saveItems calls have accepted in this step.
NewBatches == { local'[w].filtered : w \in { v \in Workers : pc[v] # "push" /\ pc'[v] = "push" } }

RECURSIVE fieldsOf(_, _)
fieldsOf(batch, field) ==
    IF batch = <<>> THEN {}
    ELSE {Head(batch)[field]} \cup fieldsOf(Tail(batch), field)

AcceptedUrls(batches) == UNION { fieldsOf(c, "url") : c \in batches } \ {NoUrl}
AcceptedIds(batches) == UNION { fieldsOf(c, "productId") : c \in batches } \ {Null}

\* C37: a step adds to seenKeys and savedProductIds exactly the urls and
\* product ids of the records a saveItems call accepted in it, and raises
\* itemsSaved only by the records a call has pushed: a rejected candidate
\* marks nothing.
C37_RejectedMarksNothing ==
    [][/\ seenKeys' = seenKeys \cup
            AcceptedUrls(NewBatches)
       /\ savedProductIds' = savedProductIds \cup
            AcceptedIds(NewBatches)
       /\ itemsSaved' # itemsSaved
            => \E w \in Workers : /\ pc[w] = "push"
                                  /\ itemsSaved' = itemsSaved + Len(local[w].filtered)]_vars

\* saveItems was called with two candidates of the same URL: the first was
\* rejected by the price filter, the second passed and waits to be pushed.
C37_Witness ==
    \E w \in Workers :
        /\ pc[w] = "push"
        /\ Len(local[w].items) = 2
        /\ shapeItem(build, local[w].items[1]).url = shapeItem(build, local[w].items[2]).url
        /\ ~passesFilters(cfg, shapeItem(build, local[w].items[1]))
        /\ local[w].filtered = <<shapeItem(build, local[w].items[2])>>
        /\ seenKeys = {local[w].filtered[1].url}

\* C38: whenever no saveItems call is suspended at its sink write,
\* itemsSaved is the number of records in the sink and seenKeys is the set
\* of their urls.
C38_CountersMatchSink ==
    (\A w \in Workers : pc[w] # "push")
        => /\ itemsSaved = Len(sink)
           /\ seenKeys = { sink[i].url : i \in DOMAIN sink } \ {NoUrl}

\* The DETAIL tasks taken from the queue so far.
detailTasksHandled == requestQueue.keys \ { task.url : task \in requestQueue.pending }

\* C39: in detail mode every record in the sink carries the url of a DETAIL
\* task that was taken from the queue, and the sink holds at most one record
\* per such task; in listing mode no DETAIL task is queued and
\* itemsEnqueued stays 0.
C39_ModesExclusive ==
    IF scrapeDetails
    THEN /\ \A i \in DOMAIN sink : sink[i].url \in detailTasksHandled
         /\ Len(sink) <= Cardinality(detailTasksHandled)
    ELSE /\ itemsEnqueued = 0
         /\ requestQueue.keys = {}
         /\ detailQueued = {}

\* C40: whenever proxyState.authFailed is set, proxyState.disabled is set.
C40_AuthFailedImpliesDisabled == proxyState.authFailed => proxyState.disabled

\* A proxy authentication failure is recorded during the first crawl, the
\* circuit is open and the re-run has not reset the flag yet.
C40_Witness ==
    /\ proxyState.authFailed
    /\ proxyState.disabled
    /\ main.pass = 1

====
